---------------------------- MODULE Spec2Model ----------------------------
(***************************************************************************)
(* A model of the routing-and-admission pipeline of the AI gateway        *)
(* (platform/src/python-backend): the admission policy engine             *)
(* (services/policy_engine.py), the provider proxies                      *)
(* (proxy/ai_providers.py), the agent router and dispatcher               *)
(* (services/multi_agent_manager.py), the provider health table           *)
(* (services/cross_provider_intelligence.py), the security scan            *)
(* (services/ai_security_scanner.py) and the live telemetry broadcast      *)
(* (services/websocket_service.py).                                        *)
(*                                                                         *)
(* Conventions.  A Python dict is a TLA+ function whose DOMAIN is the set  *)
(* of keys present (Get is dict.get).  A Python str that the code searches *)
(* is a sequence of one-character strings; identifiers that are only       *)
(* compared are TLA+ strings.  Python floats are fixed-point integers:     *)
(* rates, scores and factors in thousandths, times in milliseconds, money  *)
(* in micro-dollars, divisions rounding toward zero.  Every component has  *)
(* its own specification (SpecPolicy, SpecProxy, ...) over the shared      *)
(* variables; a specification leaves the variables of the other components *)
(* at their initial value.                                                 *)
(***************************************************************************)
EXTENDS Integers, Sequences, FiniteSets, TLC

VARIABLES
    \* services/policy_engine.py
    policies,        \* PolicyEngine.policies: the list of policy dicts
    policy_call,     \* the arguments of the last evaluate_request call
    policy_result,   \* what the last evaluate_request call returned or raised
    \* proxy/ai_providers.py
    proxy_log,       \* the last proxy_request call: its arguments, the steps it
                     \* ran in order, and what it returned or raised
    provider_calls,  \* the requests posted to the providers' APIs, in order
    \* services/multi_agent_manager.py
    agents,          \* MultiAgentManager.agents: the AgentInstance of each agent id
    dispatch_log,    \* the last /multi-agent/route request: what route_request
                     \* decided, the attempts execute_request made, the result;
                     \* or the last outcome report and the agent before it
    \* services/cross_provider_intelligence.py
    provider_status,       \* CrossProviderIntelligence.provider_status
    provider_performance,  \* CrossProviderIntelligence.provider_performance
    cpi_log,         \* the last operation of the intelligence endpoints: its
                     \* arguments, the status table before it, what it returned
    \* services/websocket_service.py
    connections,          \* LiveMonitoringService.connections
    connection_metadata,  \* LiveMonitoringService.connection_metadata
    sockets,         \* the WebSockets accepted so far: open or not, and the
                     \* messages sent to each
    ws_log,          \* the last operation of the live monitoring service:
                     \* the data it published, the state before it
    publishing,      \* the broadcast_to_all task that runs next to the other
                     \* operations: where it is suspended, or how it ended
    \* the environment and the model's own bookkeeping
    now,             \* the wall clock (datetime.utcnow / datetime.now)
    ops              \* how many operations the bounded operations have run

policyVars == <<policies, policy_call, policy_result>>
proxyVars == <<proxy_log, provider_calls>>
agentVars == <<agents, dispatch_log>>
cpiVars == <<provider_status, provider_performance, cpi_log>>
wsVars == <<connections, connection_metadata, sockets, ws_log, publishing>>
\* the variables the policy engine's operations leave alone
notPolicyVars == <<proxyVars, agentVars, cpiVars, wsVars>>
vars == <<policyVars, proxyVars, agentVars, cpiVars, wsVars, now, ops>>

-----------------------------------------------------------------------------
(* Bounds of the model *)

\* the clock stops advancing here
MaxTime == 1
\* the policy list is not grown beyond this length
MaxPolicies == 4
\* the administrative operations on the policy set that a behaviour runs
MaxAdminOps == 2
\* proxy requests in a run
MaxRequests == 2
\* /multi-agent/route requests in a run
MaxDispatches == 2
\* outcome reports in a run
MaxReports == 4
\* operations of the provider intelligence in a run
MaxCpiOps == 3
\* WebSockets accepted in a run
MaxConnections == 2
\* operations of the live monitoring service in a run
MaxWsOps == 4
\* the most threats the detectors find in one scanned content
MaxThreats == 3

-----------------------------------------------------------------------------
(* Python helpers *)

\* dict.get(key, default)
Get(d, k, default) == IF k \in DOMAIN d THEN d[k] ELSE default

\* the values of a sequence
Range(s) == {s[i] : i \in DOMAIN s}

\* str.lower() on one character, for the characters the inputs use
LowerChar(c) ==
    CASE c = "P" -> "p"
      [] c = "S" -> "s"
      [] c = "K" -> "k"
      [] OTHER -> c

\* str.lower()
Lower(s) == [i \in 1..Len(s) |-> LowerChar(s[i])]

\* needle in haystack, for two str
IsSubstring(needle, haystack) ==
    \E i \in 0..(Len(haystack) - Len(needle)) :
        SubSeq(haystack, i + 1, i + Len(needle)) = needle

Whitespace == {" "}

RECURSIVE LStrip(_)
LStrip(s) == IF s # <<>> /\ Head(s) \in Whitespace THEN LStrip(Tail(s)) ELSE s

RECURSIVE RStrip(_)
RStrip(s) ==
    IF s # <<>> /\ s[Len(s)] \in Whitespace THEN RStrip(SubSeq(s, 1, Len(s) - 1)) ELSE s

\* str.strip()
Strip(s) == RStrip(LStrip(s))

\* len(content.split()): the number of maximal runs of non-blank characters
WordCount(content) ==
    Cardinality({i \in 1..Len(content) :
                    /\ content[i] \notin Whitespace
                    /\ (i = 1 \/ content[i - 1] \in Whitespace)})

RECURSIVE Concat(_)
\* the concatenation of a sequence of str
Concat(ss) == IF ss = <<>> THEN <<>> ELSE Head(ss) \o Concat(Tail(ss))

-----------------------------------------------------------------------------
(* Regular expressions, as far as the policies use them: a pattern is a     *)
(* sequence of items (a character class repeated min..max times), with or   *)
(* without a word boundary \b at both ends; an invalid pattern makes        *)
(* re.search raise re.error.  Matching is case-insensitive (re.IGNORECASE). *)

Digits == {"0", "1", "2", "3", "4", "5", "6", "7", "8", "9"}
Letters == {"a", "b", "c", "d", "e", "f", "g", "h", "i", "j", "k", "l", "m", "n", "o", "p",
            "q", "r", "s", "t", "u", "v", "w", "x", "y", "z", "P", "S", "K"}
WordChars == Digits \cup Letters \cup {"_"}

\* cls{min,max}
Item(cls, min, max) == [cls |-> cls, min |-> min, max |-> max, bounded |-> TRUE]

\* cls{min,} (cls+ is cls{1,})
ItemFrom(cls, min) == [cls |-> cls, min |-> min, max |-> min, bounded |-> FALSE]

\* the positions (number of characters consumed) where item it can end when
\* it starts at position p of s
ItemEnds(it, s, p) ==
    LET last == IF it.bounded /\ p + it.max < Len(s) THEN p + it.max ELSE Len(s)
    IN {q \in (p + it.min)..last :
           \A j \in (p + 1)..q : LowerChar(s[j]) \in it.cls \/ s[j] \in it.cls}

RECURSIVE MatchEnds(_, _, _)
\* the positions where the items can end when they start at a position of P
MatchEnds(items, s, P) ==
    IF items = <<>> THEN P
    ELSE MatchEnds(Tail(items), s, UNION {ItemEnds(Head(items), s, p) : p \in P})

\* \b between position p and p+1 of s
IsWordBoundary(s, p) ==
    LET before == p >= 1 /\ s[p] \in WordChars
        after == p < Len(s) /\ s[p + 1] \in WordChars
    IN before # after

\* r'\b\d{3}-\d{2}-\d{4}\b'
SSNPattern ==
    [valid |-> TRUE, wb |-> TRUE,
     items |-> <<Item(Digits, 3, 3), Item({"-"}, 1, 1), Item(Digits, 2, 2),
                 Item({"-"}, 1, 1), Item(Digits, 4, 4)>>]

\* r'\b\d{4}[- ]?\d{4}[- ]?\d{4}[- ]?\d{4}\b'
CardPattern ==
    [valid |-> TRUE, wb |-> TRUE,
     items |-> <<Item(Digits, 4, 4), Item({"-", " "}, 0, 1), Item(Digits, 4, 4),
                 Item({"-", " "}, 0, 1), Item(Digits, 4, 4), Item({"-", " "}, 0, 1),
                 Item(Digits, 4, 4)>>]

\* r'\b[A-Za-z0-9._%+-]+@[A-Za-z0-9.-]+\.[A-Z|a-z]{2,}\b'
EmailPattern ==
    [valid |-> TRUE, wb |-> TRUE,
     items |-> <<ItemFrom(Letters \cup Digits \cup {".", "_", "%", "+", "-"}, 1),
                 Item({"@"}, 1, 1),
                 ItemFrom(Letters \cup Digits \cup {".", "-"}, 1),
                 Item({"."}, 1, 1),
                 ItemFrom(Letters \cup {"|"}, 2)>>]

\* a pattern that does not compile, such as '('
InvalidPattern == [valid |-> FALSE, wb |-> FALSE, items |-> <<>>]

\* re's compilation of a pattern string; the policies name their patterns
\* "ssn", "card" and "email", and "(" is a string that is no pattern
Compile(pattern) ==
    CASE pattern = "ssn" -> SSNPattern
      [] pattern = "card" -> CardPattern
      [] pattern = "email" -> EmailPattern
      [] OTHER -> InvalidPattern

\* re.search(pattern, content, re.IGNORECASE) is not None, for a pattern that
\* compiles
ReSearch(pattern, content) ==
    LET compiled == Compile(pattern)
    IN \E p \in 0..Len(content) :
           /\ compiled.wb => IsWordBoundary(content, p)
           /\ \E q \in MatchEnds(compiled.items, content, {p}) :
                  compiled.wb => IsWordBoundary(content, q)

-----------------------------------------------------------------------------
(* services/policy_engine.py: the admission policy engine *)

\* what a _check_* method does: return None, return a violation dict, or raise
None == [kind |-> "none"]
Violation(v) == [kind |-> "violation", v |-> v]
Raise(e) == [kind |-> "raise", error |-> e]

\* PolicyEngine._get_current_spend: the mock returns 0.05 whatever it is asked
\* (50000 micro-dollars)
_get_current_spend(user_id, team_id, time_window, scope) == 50000

\* PolicyEngine._extract_content: the message contents and, twice, the prompt,
\* each followed by a blank, stripped
_extract_content(request_data) ==
    LET messages == IF "messages" \in DOMAIN request_data
                    THEN Concat([i \in 1..Len(request_data.messages) |->
                                    request_data.messages[i] \o <<" ">>])
                    ELSE <<>>
        prompt == IF "prompt" \in DOMAIN request_data
                  THEN request_data.prompt \o <<" ">> \o request_data.prompt \o <<" ">>
                  ELSE <<>>
    IN Strip(messages \o prompt)

\* PolicyEngine._check_budget_policy
_check_budget_policy(policy, user_id, team_id, estimated_cost) ==
    LET budget_limit == Get(policy, "budget_limit", 0)
        time_window == Get(policy, "time_window", "daily")
        scope == Get(policy, "scope", "user")
        current_spend == _get_current_spend(user_id, team_id, time_window, scope)
    IN IF current_spend + estimated_cost > budget_limit
       THEN Violation([policy_id |-> policy.id, type |-> "budget",
                       action |-> Get(policy, "action", "warn"),
                       reason |-> "budget_limit"])
       ELSE None

RECURSIVE FirstPattern(_, _, _)
\* the loop over blocked_patterns: the first pattern that matches returns a
\* violation, a pattern that does not compile raises re.error
FirstPattern(policy, patterns, content) ==
    IF patterns = <<>> THEN None
    ELSE IF ~Compile(Head(patterns)).valid THEN Raise("re.error")
    ELSE IF ReSearch(Head(patterns), content)
         THEN Violation([policy_id |-> policy.id, type |-> "content",
                         action |-> Get(policy, "action", "block"),
                         reason |-> "matched_pattern"])
         ELSE FirstPattern(policy, Tail(patterns), content)

\* the loop over blocked_keywords
FirstKeyword(policy, keywords, content) ==
    IF \E i \in DOMAIN keywords : IsSubstring(Lower(keywords[i]), Lower(content))
    THEN Violation([policy_id |-> policy.id, type |-> "content",
                    action |-> Get(policy, "action", "warn"),
                    reason |-> "matched_keyword"])
    ELSE None

\* PolicyEngine._check_content_policy
_check_content_policy(policy, request_data) ==
    LET blocked_patterns == Get(policy, "blocked_patterns", <<>>)
        blocked_keywords == Get(policy, "blocked_keywords", <<>>)
        content == _extract_content(request_data)
        byPattern == FirstPattern(policy, blocked_patterns, content)
    IN IF byPattern.kind # "none" THEN byPattern
       ELSE FirstKeyword(policy, blocked_keywords, content)

\* PolicyEngine._check_user_policy
_check_user_policy(policy, user_id, team_id) ==
    LET allowed_users == Get(policy, "allowed_users", {})
        blocked_users == Get(policy, "blocked_users", {})
        allowed_teams == Get(policy, "allowed_teams", {})
        blocked_teams == Get(policy, "blocked_teams", {})
        v(reason) == Violation([policy_id |-> policy.id, type |-> "user",
                                action |-> "block", reason |-> reason])
    IN IF blocked_users # {} /\ user_id \in blocked_users THEN v("blocked_user")
       ELSE IF blocked_teams # {} /\ team_id \in blocked_teams THEN v("blocked_team")
       ELSE IF allowed_users # {} /\ user_id \notin allowed_users THEN v("user_not_allowed")
       ELSE IF allowed_teams # {} /\ team_id \notin allowed_teams THEN v("team_not_allowed")
       ELSE None

\* PolicyEngine._check_model_policy
_check_model_policy(policy, request_data) ==
    LET blocked_models == Get(policy, "blocked_models", {})
        allowed_models == Get(policy, "allowed_models", {})
        max_tokens == Get(policy, "max_tokens", 0)
        model == Get(request_data, "model", "")
    IN IF blocked_models # {} /\ model \in blocked_models
       THEN Violation([policy_id |-> policy.id, type |-> "model",
                       action |-> "block", reason |-> "blocked_model"])
       ELSE IF allowed_models # {} /\ model \notin allowed_models
       THEN Violation([policy_id |-> policy.id, type |-> "model",
                       action |-> "block", reason |-> "model_not_allowed"])
       ELSE IF max_tokens # 0 /\ Get(request_data, "max_tokens", 0) > max_tokens
       THEN Violation([policy_id |-> policy.id, type |-> "model",
                       action |-> Get(policy, "action", "warn"),
                       reason |-> "max_tokens_limit"])
       ELSE None

\* PolicyEngine._check_time_policy; clock is datetime.utcnow(): its hour and
\* its lower-cased day name
_check_time_policy(policy, clock) ==
    LET allowed_hours == Get(policy, "allowed_hours", {})
        blocked_days == Get(policy, "blocked_days", {})
    IN IF allowed_hours # {} /\ clock.hour \notin allowed_hours
       THEN Violation([policy_id |-> policy.id, type |-> "time",
                       action |-> Get(policy, "action", "block"),
                       reason |-> "current_hour"])
       ELSE IF blocked_days # {} /\ clock.day \in blocked_days
       THEN Violation([policy_id |-> policy.id, type |-> "time",
                       action |-> Get(policy, "action", "block"),
                       reason |-> "blocked_day"])
       ELSE None

\* PolicyEngine._check_policy
_check_policy(policy, request_data, user_id, team_id, estimated_cost, clock) ==
    LET policy_type == Get(policy, "type", "None")
    IN CASE policy_type = "budget" ->
                _check_budget_policy(policy, user_id, team_id, estimated_cost)
         [] policy_type = "content" -> _check_content_policy(policy, request_data)
         [] policy_type = "user" -> _check_user_policy(policy, user_id, team_id)
         [] policy_type = "model" -> _check_model_policy(policy, request_data)
         [] policy_type = "time" -> _check_time_policy(policy, clock)
         [] OTHER -> None

\* FinalAction deciding by the last violation alone
FinalAction_LastActionWins(actions) ==
    IF actions = <<>> THEN "allow" ELSE actions[Len(actions)]

\* FinalAction with the two tests in the wrong order: warn hides block
FinalAction_WarnFirst(actions) ==
    IF "warn" \in Range(actions) THEN "warn"
    ELSE IF "block" \in Range(actions) THEN "block"
    ELSE "allow"

\* "Determine final action" of evaluate_request
FinalAction(actions) ==
    IF "block" \in Range(actions) THEN "block"
    ELSE IF "warn" \in Range(actions) THEN "warn"
    ELSE "allow"

\* PolicyEngine.evaluate_request on the policy list ps
evaluate_request(ps, request_data, user_id, team_id, estimated_cost, clock) ==
    LET checks == [i \in 1..Len(ps) |->
                      IF Get(ps[i], "active", TRUE)
                      THEN _check_policy(ps[i], request_data, user_id, team_id,
                                         estimated_cost, clock)
                      ELSE None]
        hits == SelectSeq(checks, LAMBDA c : c.kind = "violation")
        violations == [i \in 1..Len(hits) |-> hits[i].v]
        actions == [i \in 1..Len(violations) |-> violations[i].action]
        final_action == FinalAction(actions)
    IN IF \E i \in 1..Len(ps) : checks[i].kind = "raise"
       THEN [raised |-> TRUE, error |-> "re.error"]
       ELSE [raised |-> FALSE,
             action |-> final_action,
             allowed |-> (final_action # "block"),
             violations |-> violations]

\* PolicyEngine.add_policy: the policy as stored; the id is
\* f"policy_{len(self.policies) + 1}_{int(timestamp)}"
NewPolicyId(ps, t) == <<Len(ps) + 1, t>>

add_policy(ps, policy, t) ==
    Append(ps, ("id" :> NewPolicyId(ps, t) @@ "created_at" :> t @@ "active" :> TRUE)
               @@ policy)

\* the index of the first policy with this id, 0 when there is none
FirstWithId(ps, policy_id) ==
    IF \E i \in 1..Len(ps) : ps[i].id = policy_id
    THEN CHOOSE i \in 1..Len(ps) :
             /\ ps[i].id = policy_id
             /\ \A j \in 1..(i - 1) : ps[j].id # policy_id
    ELSE 0

\* PolicyEngine.delete_policy: the list afterwards
delete_policy(ps, policy_id) ==
    LET i == FirstWithId(ps, policy_id)
    IN IF i = 0 THEN ps ELSE SubSeq(ps, 1, i - 1) \o SubSeq(ps, i + 1, Len(ps))

\* PolicyEngine.update_policy: the list afterwards
update_policy(ps, policy_id, updates, t) ==
    LET i == FirstWithId(ps, policy_id)
    IN IF i = 0 THEN ps
       ELSE [ps EXCEPT ![i] = ("updated_at" :> t) @@ updates @@ ps[i]]

(* The policies the module adds when it is imported (policy_engine.py, the  *)
(* end of the file); money is in micro-dollars.                             *)
DailyBudgetLimit ==
    [name |-> "Daily Budget Limit", type |-> "budget", budget_limit |-> 10000000,
     time_window |-> "daily", scope |-> "user", action |-> "warn"]

BlockSensitiveData ==
    [name |-> "Block Sensitive Data", type |-> "content",
     blocked_patterns |-> <<"ssn", "card", "email">>,
     blocked_keywords |-> << <<"p", "a", "s", "s", "w", "o", "r", "d">>,
                             <<"s", "e", "c", "r", "e", "t">>,
                             <<"a", "p", "i", "_", "k", "e", "y">>,
                             <<"t", "o", "k", "e", "n">> >>,
     action |-> "block"]

BusinessHoursOnly ==
    [name |-> "Business Hours Only", type |-> "time", allowed_hours |-> 9..17,
     blocked_days |-> {"saturday", "sunday"}, action |-> "warn"]

DefaultPolicies ==
    add_policy(add_policy(add_policy(<<>>, DailyBudgetLimit, 0), BlockSensitiveData, 0),
               BusinessHoursOnly, 0)

(* The inputs of the administrative operations (POST/PUT/DELETE /policies)  *)
PolicyInputs ==
    {[name |-> "No Mallory", type |-> "user", blocked_users |-> {"mallory"},
      action |-> "warn"],
     [name |-> "Models", type |-> "model", allowed_models |-> {"gpt-4", "gpt-3.5-turbo"},
      max_tokens |-> 1000, action |-> "warn"],
     [name |-> "Tight Budget", type |-> "budget", budget_limit |-> 1000000,
      time_window |-> "daily", scope |-> "team", action |-> "block"],
     [name |-> "Bad Pattern", type |-> "content",
      blocked_patterns |-> <<"(">>, action |-> "block"],
     [name |-> "Custom", type |-> "custom", action |-> "block"]}

UpdateInputs == {[active |-> FALSE], [action |-> "block"]}

(* The inputs of evaluate_request *)
RequestInputs ==
    {[model |-> "gpt-4", max_tokens |-> 100, messages |-> << <<"h", "i">> >>],
     [model |-> "gpt-4", max_tokens |-> 100,
      messages |-> << <<"m", "y", " ", "P", "a", "s", "s", "w", "o", "r", "d">> >>],
     [model |-> "gpt-4o", max_tokens |-> 5000,
      messages |-> << <<"i", "d">>, <<"1", "2", "3", "-", "4", "5", "-", "6", "7", "8", "9">> >>],
     [model |-> "gpt-3.5-turbo", prompt |-> <<"h", "i">>],
     [model |-> "gpt-4", max_tokens |-> 5000,
      messages |-> << <<"t", "o", "k", "e", "n">> >>],
     [model |-> "claude-3-opus-20240229", max_tokens |-> 100,
      messages |-> << <<"h", "e", "l", "l", "o", " ", "t", "h", "e", "r", "e">> >>]}

Users == {"alice", "mallory"}
Teams == {"red"}
\* estimated costs, in micro-dollars
Costs == {20000, 9960000}
\* what the spend records hold for the caller when a request is evaluated,
\* in micro-dollars: the figure _get_current_spend is to look up
Spends == {50000, 9990000}
\* datetime.utcnow().hour and .strftime('%A').lower() at time t: the run starts
\* on a monday morning and every step of the clock is a jump of some days
Calendar(t) ==
    CASE t = 0 -> [hour |-> 10, day |-> "monday"]
      [] t = 1 -> [hour |-> 20, day |-> "saturday"]
      [] OTHER -> [hour |-> 20, day |-> "tuesday"]

NoCall == [made |-> FALSE]
NoResult == [raised |-> FALSE, action |-> "none", allowed |-> TRUE, violations |-> <<>>]

\* the state after the modules are imported

\* POST /policies
AddPolicy(policy) ==
    /\ ~policy_call.made
    /\ ops < MaxAdminOps
    /\ Len(policies) < MaxPolicies
    /\ policies' = add_policy(policies, policy, now)
    /\ ops' = ops + 1
    /\ UNCHANGED <<policy_call, policy_result, now>>
    /\ UNCHANGED notPolicyVars

\* PUT /policies/{policy_id}
UpdatePolicy(policy_id, updates) ==
    /\ ~policy_call.made
    /\ ops < MaxAdminOps
    /\ policies' = update_policy(policies, policy_id, updates, now)
    /\ ops' = ops + 1
    /\ UNCHANGED <<policy_call, policy_result, now>>
    /\ UNCHANGED notPolicyVars

\* DELETE /policies/{policy_id}
DeletePolicy(policy_id) ==
    /\ ~policy_call.made
    /\ ops < MaxAdminOps
    /\ policies' = delete_policy(policies, policy_id)
    /\ ops' = ops + 1
    /\ UNCHANGED <<policy_call, policy_result, now>>
    /\ UNCHANGED notPolicyVars

\* POST /policies/test, and the call the proxy makes.  evaluate_request reads
\* the policy list and changes nothing, so a behaviour of SpecPolicy runs its
\* administrative operations first and one evaluation last: every policy list
\* meets every input.
EvaluateRequest(request_data, user_id, team_id, estimated_cost, accumulated_spend) ==
    /\ ~policy_call.made
    /\ policy_call' = [made |-> TRUE, request_data |-> request_data, user_id |-> user_id,
                       team_id |-> team_id, estimated_cost |-> estimated_cost,
                       accumulated_spend |-> accumulated_spend,
                       clock |-> Calendar(now)]
    /\ policy_result' = evaluate_request(policies, request_data, user_id, team_id,
                                         estimated_cost, Calendar(now))
    /\ UNCHANGED <<policies, now, ops>>
    /\ UNCHANGED notPolicyVars

\* time passes
Tick ==
    /\ ~policy_call.made
    /\ now < MaxTime
    /\ now' = now + 1
    /\ UNCHANGED <<policyVars, ops>>
    /\ UNCHANGED notPolicyVars

\* the ids a caller may name: those in use and one that is not
PolicyIds == {policies[i].id : i \in 1..Len(policies)} \cup {<<0, 0>>}

NextPolicy ==
    \/ \E policy \in PolicyInputs : AddPolicy(policy)
    \/ \E policy_id \in PolicyIds, updates \in UpdateInputs : UpdatePolicy(policy_id, updates)
    \/ \E policy_id \in PolicyIds : DeletePolicy(policy_id)
    \/ \E request_data \in RequestInputs, user_id \in Users, team_id \in Teams,
          estimated_cost \in Costs, accumulated_spend \in Spends :
           EvaluateRequest(request_data, user_id, team_id, estimated_cost,
                           accumulated_spend)
    \/ Tick


-----------------------------------------------------------------------------
(* proxy/ai_providers.py: the provider proxies *)

\* an int the code computed
IntValue(n) == [kind |-> "int", value |-> n]

\* OpenAIProxy.PRICING and AnthropicProxy.PRICING, in micro-dollars per 1K
\* tokens
OpenAIPricing ==
    [m \in {"gpt-4", "gpt-4-turbo", "gpt-4o", "gpt-3.5-turbo", "text-embedding-ada-002"} |->
        CASE m = "gpt-4" -> [input |-> 30000, output |-> 60000]
          [] m = "gpt-4-turbo" -> [input |-> 10000, output |-> 30000]
          [] m = "gpt-4o" -> [input |-> 5000, output |-> 15000]
          [] m = "gpt-3.5-turbo" -> [input |-> 1500, output |-> 2000]
          [] OTHER -> [input |-> 100, output |-> 0]]

AnthropicPricing ==
    [m \in {"claude-3-5-sonnet-20241022", "claude-3-opus-20240229",
            "claude-3-haiku-20240307"} |->
        CASE m = "claude-3-5-sonnet-20241022" -> [input |-> 3000, output |-> 15000]
          [] m = "claude-3-opus-20240229" -> [input |-> 15000, output |-> 75000]
          [] OTHER -> [input |-> 250, output |-> 1250]]

\* the sum of len(str(message["content"])) over the messages
RECURSIVE TotalChars(_)
TotalChars(messages) ==
    IF messages = <<>> THEN 0 ELSE Len(Head(messages)) + TotalChars(Tail(messages))

\* OpenAIProxy._estimate_tokens: the method adds up the characters and ends
\* without a return statement (its return line closes _log_request instead),
\* so every call returns None
OpenAIProxy_estimate_tokens(messages) == None

\* AnthropicProxy._estimate_tokens: max(1, total_chars // 4)
AnthropicProxy_estimate_tokens(messages) ==
    LET total_chars == TotalChars(messages)
    IN IntValue(IF total_chars \div 4 > 1 THEN total_chars \div 4 ELSE 1)

\* OpenAIProxy._estimate_cost_quick: None / 1000 raises TypeError
OpenAIProxy_estimate_cost_quick(request_data) ==
    LET model == Get(request_data, "model", "gpt-3.5-turbo")
        pricing == Get(OpenAIPricing, model, OpenAIPricing["gpt-3.5-turbo"])
        estimated_input_tokens ==
            OpenAIProxy_estimate_tokens(Get(request_data, "messages", <<>>))
        max_output_tokens == Get(request_data, "max_tokens", 100)
    IN IF estimated_input_tokens.kind = "none"
       THEN Raise("TypeError")
       ELSE IntValue((estimated_input_tokens.value * pricing.input
                 + max_output_tokens * pricing.output) \div 1000)

\* round(x, 6) of an amount given in thousandths of a micro-dollar
Round6(nano) == (nano + 500) \div 1000

\* _calculate_cost of both proxies: usage_keys are the names the provider's
\* usage block gives to the input and output token counts
CalculateCost(pricing_table, default_model, usage_keys, tokens, request_data, response_data) ==
    LET model == Get(request_data, "model", default_model)
        pricing == Get(pricing_table, model, pricing_table[default_model])
        has_usage == "usage" \in DOMAIN response_data
        input_tokens == IF has_usage
                        THEN IntValue(Get(response_data.usage, usage_keys[1], 0))
                        ELSE tokens
        output_tokens == IF has_usage THEN Get(response_data.usage, usage_keys[2], 0) ELSE 0
    IN IF input_tokens.kind = "none"
       THEN Raise("TypeError")
       ELSE [kind |-> "dict", model |-> model,
             input_tokens |-> input_tokens.value, output_tokens |-> output_tokens,
             input_cost |-> Round6(input_tokens.value * pricing.input),
             output_cost |-> Round6(output_tokens * pricing.output),
             total_cost |-> Round6(input_tokens.value * pricing.input
                                   + output_tokens * pricing.output)]

\* OpenAIProxy._calculate_cost
OpenAIProxy_calculate_cost(request_data, response_data) ==
    CalculateCost(OpenAIPricing, "gpt-3.5-turbo", <<"prompt_tokens", "completion_tokens">>,
                  OpenAIProxy_estimate_tokens(Get(request_data, "messages", <<>>)),
                  request_data, response_data)

\* AnthropicProxy._calculate_cost
AnthropicProxy_calculate_cost(request_data, response_data) ==
    CalculateCost(AnthropicPricing, "claude-3-haiku-20240307",
                  <<"input_tokens", "output_tokens">>,
                  AnthropicProxy_estimate_tokens(Get(request_data, "messages", <<>>)),
                  request_data, response_data)

\* what a call produced
Return(value) == [kind |-> "return", value |-> value]

\* _log_request of the two proxies: the log entry is written (a failed write
\* is swallowed by db_service.log_ai_request); OpenAIProxy's then runs the
\* return line that belongs to _estimate_tokens and names total_chars, which
\* is not defined there
OpenAIProxy_log_request(status_code) == Raise("NameError")
AnthropicProxy_log_request(status_code) == None

\* a step of a proxy_request call
Step(op, detail) == [op |-> op, detail |-> detail]

\* the steps proxy_request runs for the violations of a policy result:
\* one live_monitor.stream_policy_violation per violation
ViolationSteps(violations) ==
    [i \in 1..Len(violations) |->
        Step("stream_policy_violation", violations[i].policy_id)]

\* the warnings among the violations, in order
RECURSIVE PolicyWarnings(_)
PolicyWarnings(violations) ==
    IF violations = <<>> THEN <<>>
    ELSE (IF Head(violations).action = "warn" THEN <<Head(violations)>> ELSE <<>>)
         \o PolicyWarnings(Tail(violations))

\* OpenAIProxy.proxy_request, the except branch (lines 436-467): the error
\* is streamed and logged, and the result is returned if the logging returns
OpenAIProxy_failed(steps, error) ==
    LET logged == OpenAIProxy_log_request(500)
        all == steps \o <<Step("stream_response_live", "error"),
                          Step("_log_request", 500)>>
    IN IF logged.kind = "raise"
       THEN [steps |-> all, outcome |-> logged]
       ELSE [steps |-> all,
             outcome |-> Return([success |-> FALSE, error |-> error,
                                 status_code |-> 500])]

\* ai_quality_analyzer.analyze_response_quality(...): AIQualityAnalyzer
\* defines analyze_quality and no analyze_response_quality, so the call
\* raises AttributeError
analyze_response_quality == Raise("AttributeError")

\* OpenAIProxy.proxy_request, the try branch (lines 357-434): the provider
\* call and what follows it.  response is what client.post does: it raises,
\* or it returns a response with a status code and a body that is JSON or is
\* not.
OpenAIProxy_dispatch(request_data, policy, response) ==
    LET post == <<Step("post", "openai")>>
        analysed == post \o <<Step("analyze_response_quality", "openai")>>
        quality_analysis == analyze_response_quality
        status_code == IF response.kind = "response" THEN response.status_code ELSE 0
        completed == analysed \o <<Step("stream_response_live", "completed"),
                                   Step("_log_request", status_code)>>
        cost_info == IF response.kind = "response" /\ response.json
                     THEN OpenAIProxy_calculate_cost(request_data, response.data)
                     ELSE None
        logged == OpenAIProxy_log_request(status_code)
    IN CASE response.kind = "raise" -> OpenAIProxy_failed(post, response.error)
         [] response.kind = "cancel" /\ response.caught ->
                OpenAIProxy_failed(post, "CancelledError")
         [] response.kind = "cancel" /\ ~response.caught ->
                [steps |-> post, outcome |-> Raise("CancelledError")]
         [] response.kind = "response" /\ ~response.json ->
                OpenAIProxy_failed(post, "JSONDecodeError")
         [] response.kind = "response" /\ response.json /\ quality_analysis.kind = "raise" ->
                OpenAIProxy_failed(analysed, quality_analysis.error)
         [] response.kind = "response" /\ response.json /\ quality_analysis.kind # "raise"
            /\ cost_info.kind = "raise" ->
                OpenAIProxy_failed(analysed, cost_info.error)
         [] response.kind = "response" /\ response.json /\ quality_analysis.kind # "raise"
            /\ cost_info.kind # "raise" /\ logged.kind = "raise" ->
                OpenAIProxy_failed(completed, logged.error)
         [] OTHER ->
                [steps |-> completed,
                 outcome |-> Return([success |-> TRUE, data |-> response.data,
                                     status_code |-> response.status_code,
                                     cost_info |-> cost_info,
                                     policy_warnings |-> PolicyWarnings(policy.violations)])]

\* OpenAIProxy.proxy_request from the policy check on (lines 284-467), given
\* the result of evaluate_request
OpenAIProxy_after_policy(policy, request_data, response) ==
    LET started == <<Step("stream_request_live", "starting")>>
        evaluated == started \o <<Step("evaluate_request", policy.action)>>
                     \o ViolationSteps(policy.violations)
        blocked == evaluated \o <<Step("stream_response_live", "blocked"),
                                  Step("_log_request", 403)>>
        processing == evaluated \o <<Step("stream_request_live", "processing")>>
        logged == OpenAIProxy_log_request(403)
        dispatched == OpenAIProxy_dispatch(request_data, policy, response)
    IN CASE policy.raised -> [steps |-> started, outcome |-> Raise(policy.error)]
         [] ~policy.raised /\ ~policy.allowed /\ logged.kind = "raise" ->
                [steps |-> blocked, outcome |-> logged]
         [] ~policy.raised /\ ~policy.allowed /\ logged.kind # "raise" ->
                [steps |-> blocked,
                 outcome |-> Return([success |-> FALSE,
                                     error |-> "Request blocked by policy",
                                     policy_violations |-> policy.violations,
                                     status_code |-> 403, blocked |-> TRUE])]
         [] OTHER -> [steps |-> processing \o dispatched.steps,
                      outcome |-> dispatched.outcome]

\* OpenAIProxy.proxy_request from the first live event on (lines 265-467),
\* given what _estimate_cost_quick did: line 274 raises what it raised
OpenAIProxy_after_estimate(quick, ps, request_data, user_id, team_id, response, clock) ==
    IF quick.kind = "raise"
    THEN [steps |-> <<>>, outcome |-> quick]
    ELSE OpenAIProxy_after_policy(
             evaluate_request(ps, request_data, user_id, team_id, quick.value, clock),
             request_data, response)

\* OpenAIProxy.proxy_request
OpenAIProxy_proxy_request(ps, request_data, user_id, team_id, response, clock) ==
    OpenAIProxy_after_estimate(OpenAIProxy_estimate_cost_quick(request_data),
                               ps, request_data, user_id, team_id, response, clock)

\* AnthropicProxy.proxy_request
AnthropicProxy_proxy_request(request_data, user_id, team_id, response) ==
    LET post == <<Step("post", "anthropic")>>
        failed(error) ==
            [steps |-> post,
             outcome |-> Return([success |-> FALSE, error |-> error,
                                 status_code |-> 500])]
    IN IF response.kind = "raise" THEN failed(response.error)
       ELSE IF response.kind = "cancel" /\ response.caught THEN failed("CancelledError")
       ELSE IF response.kind = "cancel"
       THEN [steps |-> post, outcome |-> Raise("CancelledError")]
       ELSE IF ~response.json THEN failed("JSONDecodeError")
       ELSE LET cost_info == AnthropicProxy_calculate_cost(request_data, response.data)
                logged == AnthropicProxy_log_request(response.status_code)
            IN IF cost_info.kind = "raise" THEN failed(cost_info.error)
               ELSE IF logged.kind = "raise" THEN failed(logged.error)
               ELSE [steps |-> post \o <<Step("_log_request", response.status_code)>>,
                     outcome |-> Return([success |-> TRUE, data |-> response.data,
                                         status_code |-> response.status_code,
                                         cost_info |-> cost_info])]

\* the requests a proxy_request call posted to the provider
RECURSIVE Posted(_, _)
Posted(steps, request_data) ==
    IF steps = <<>> THEN <<>>
    ELSE (IF Head(steps).op = "post"
          THEN <<[provider |-> Head(steps).detail, request_data |-> request_data]>>
          ELSE <<>>)
         \o Posted(Tail(steps), request_data)

\* POST /proxy/openai/... and /proxy/anthropic/... (main.py): the data of a
\* successful result is the response; a failed result raises an
\* HTTPException, which the handler's own except Exception turns into a 500
HttpStatus(outcome) ==
    IF outcome.kind = "return" /\ outcome.value.success THEN 200 ELSE 500

(* What client.post can do: answer, raise, or be cancelled by the caller     *)
(* while the call is in flight.  The CancelledError of a cancelled await is  *)
(* caught by "except Exception" on Python 3.7 and is not from Python 3.8 on. *)
ProviderResponses(provider) ==
    {[kind |-> "response", status_code |-> 200, json |-> TRUE,
      data |-> [usage |-> IF provider = "openai"
                          THEN [prompt_tokens |-> 12, completion_tokens |-> 30]
                          ELSE [input_tokens |-> 12, output_tokens |-> 30]]],
     [kind |-> "response", status_code |-> 200, json |-> TRUE,
      data |-> [id |-> "msg_1"]],
     [kind |-> "response", status_code |-> 429, json |-> TRUE,
      data |-> [error |-> "rate_limit_error"]],
     [kind |-> "response", status_code |-> 502, json |-> FALSE],
     [kind |-> "raise", error |-> "ReadTimeout"],
     [kind |-> "cancel", caught |-> TRUE],
     [kind |-> "cancel", caught |-> FALSE]}

\* a request through one of the two proxy endpoints; response is what the
\* provider does when it is called, call is what proxy_request did
ProxyRequest(provider, request_data, user_id, team_id, response, call) ==
    /\ ops < MaxRequests
    /\ proxy_log' = [made |-> TRUE, provider |-> provider,
                     request_data |-> request_data, user_id |-> user_id,
                     team_id |-> team_id, clock |-> Calendar(now),
                     response |-> response,
                     steps |-> call.steps, outcome |-> call.outcome,
                     http_status |-> HttpStatus(call.outcome)]
    /\ provider_calls' = provider_calls \o Posted(call.steps, request_data)
    /\ ops' = ops + 1
    /\ UNCHANGED <<policyVars, agentVars, cpiVars, wsVars, now>>

\* POST /proxy/openai/{endpoint}
ProxyOpenAI(request_data, user_id, team_id, response) ==
    \E call \in {OpenAIProxy_proxy_request(policies, request_data, user_id, team_id,
                                           response, Calendar(now))} :
        ProxyRequest("openai", request_data, user_id, team_id, response, call)

\* POST /proxy/anthropic/{endpoint}
ProxyAnthropic(request_data, user_id, team_id, response) ==
    \E call \in {AnthropicProxy_proxy_request(request_data, user_id, team_id, response)} :
        ProxyRequest("anthropic", request_data, user_id, team_id, response, call)

NextProxy ==
    \/ \E request_data \in RequestInputs, user_id \in Users, team_id \in Teams,
          response \in ProviderResponses("openai") :
           ProxyOpenAI(request_data, user_id, team_id, response)
    \/ \E request_data \in RequestInputs, user_id \in Users, team_id \in Teams,
          response \in ProviderResponses("anthropic") :
           ProxyAnthropic(request_data, user_id, team_id, response)
    \/ Tick


-----------------------------------------------------------------------------
(* services/multi_agent_manager.py: the agent registry, router and          *)
(* dispatcher.  Rates and scores are in thousandths, times in milliseconds, *)
(* costs per 1K tokens in micro-dollars, quality scores in tenths.          *)

\* _register_agent_capability: the AgentInstance a registration creates
AgentInstance(model, provider, agent_type, cost_per_1k_tokens, avg_latency_ms, quality_score) ==
    [model |-> model, provider |-> provider, agent_type |-> agent_type,
     status |-> "active",
     cost_per_1k_tokens |-> cost_per_1k_tokens, quality_score |-> quality_score,
     total_requests |-> 0, success_rate |-> 1000,
     avg_response_time |-> avg_latency_ms, total_cost |-> 0, health_score |-> 1000]

\* the ids of the agents _initialize_default_capabilities registers, in the
\* order it registers them
AgentIds ==
    <<"OpenAI_gpt-4o_chat", "Anthropic_claude-3.5-sonnet_chat",
      "OpenAI_gpt-4o-code_code", "Anthropic_claude-3.5-sonnet-analysis_analysis",
      "OpenAI_gpt-4o-creative_creative",
      "Anthropic_claude-3.5-sonnet-reasoning_reasoning",
      "OpenAI_gpt-4o-vision_multimodal">>

\* MultiAgentManager.agents after __init__
DefaultAgents ==
    [id \in Range(AgentIds) |->
        CASE id = "OpenAI_gpt-4o_chat" ->
                 AgentInstance("gpt-4o", "OpenAI", "chat", 5000, 1200, 92)
          [] id = "Anthropic_claude-3.5-sonnet_chat" ->
                 AgentInstance("claude-3.5-sonnet", "Anthropic", "chat", 3000, 800, 94)
          [] id = "OpenAI_gpt-4o-code_code" ->
                 AgentInstance("gpt-4o-code", "OpenAI", "code", 5000, 1500, 91)
          [] id = "Anthropic_claude-3.5-sonnet-analysis_analysis" ->
                 AgentInstance("claude-3.5-sonnet-analysis", "Anthropic", "analysis",
                               3000, 1000, 93)
          [] id = "OpenAI_gpt-4o-creative_creative" ->
                 AgentInstance("gpt-4o-creative", "OpenAI", "creative", 5000, 1100, 89)
          [] id = "Anthropic_claude-3.5-sonnet-reasoning_reasoning" ->
                 AgentInstance("claude-3.5-sonnet-reasoning", "Anthropic", "reasoning",
                               3000, 900, 95)
          [] OTHER ->
                 AgentInstance("gpt-4o-vision", "OpenAI", "multimodal", 5000, 1300, 90)]

\* AgentType
AgentTypes ==
    {"chat", "code", "analysis", "creative", "reasoning", "multimodal", "specialized"}

\* RoutingStrategy
RoutingStrategies == {"performance", "cost", "quality", "balanced", "failover"}

\* MultiAgentManager.agent_pools[agent_type]: the ids of the agents of a
\* type, in registration order
AgentPool(agent_type) ==
    SelectSeq(AgentIds, LAMBDA id : DefaultAgents[id].agent_type = agent_type)

\* min(1.0, 2.0 / (avg_response_time + 0.1)) without the min
LatencyFactor_NoMin(avg_response_time) == 2000000 \div (avg_response_time + 100)

\* min(1.0, 2.0 / (avg_response_time + 0.1)): faster is healthier
LatencyFactor(avg_response_time) ==
    IF 2000000 \div (avg_response_time + 100) < 1000
    THEN 2000000 \div (avg_response_time + 100)
    ELSE 1000

\* MultiAgentManager._update_agent_metrics: the agent after an outcome of
\* the given duration is reported (alpha = 0.1)
_update_agent_metrics(agent, duration, success, response) ==
    LET success_rate == (9 * agent.success_rate + (IF success THEN 1000 ELSE 0)) \div 10
        avg_response_time == (9 * agent.avg_response_time + duration) \div 10
        recent == IF success THEN 1000 ELSE 800
    IN [agent EXCEPT
           !.success_rate = success_rate,
           !.avg_response_time = avg_response_time,
           !.health_score = (success_rate + LatencyFactor(avg_response_time) + recent) \div 3,
           !.total_cost = IF "cost" \in DOMAIN response THEN @ + response.cost ELSE @]

\* the first element of ids whose key is the least (Python's min with a key)
MinBy(ids, keys) ==
    ids[CHOOSE i \in 1..Len(ids) :
            /\ \A j \in 1..Len(ids) : keys[ids[i]] <= keys[ids[j]]
            /\ \A j \in 1..(i - 1) : keys[ids[j]] > keys[ids[i]]]

\* the first element of ids whose key is the greatest (Python's max with a key)
MaxBy(ids, keys) ==
    ids[CHOOSE i \in 1..Len(ids) :
            /\ \A j \in 1..Len(ids) : keys[ids[i]] >= keys[ids[j]]
            /\ \A j \in 1..(i - 1) : keys[ids[j]] < keys[ids[i]]]

\* sorted(ids, key=..., reverse=True): greatest key first, elements of equal
\* key in their original order
RECURSIVE SortedDesc(_, _)
SortedDesc(ids, keys) ==
    IF ids = <<>> THEN <<>>
    ELSE LET rest == SortedDesc(SubSeq(ids, 1, Len(ids) - 1), keys)
             x == ids[Len(ids)]
             before == SelectSeq(rest, LAMBDA y : keys[y] >= keys[x])
             after == SelectSeq(rest, LAMBDA y : keys[y] < keys[x])
         IN before \o <<x>> \o after

\* MultiAgentManager._get_available_agents: the active agents of the type
\* whose health score is above 0.5
_get_available_agents(ags, agent_type) ==
    SelectSeq(AgentPool(agent_type),
              LAMBDA id : ags[id].status = "active" /\ ags[id].health_score > 500)

\* calculate_score of _route_by_balanced, times ten:
\* 0.3 / (avg_response_time + 0.1) + 0.2 / (cost + 0.001)
\* + 0.3 * quality / 10 + 0.2 * health
BalancedScore(agent) ==
    3 * (1000000 \div (agent.avg_response_time + 100))
    + 2 * (1000000000 \div (agent.cost_per_1k_tokens + 1000))
    + 3 * (agent.quality_score * 10)
    + 2 * agent.health_score

\* the routing functions MultiAgentManager.routing_strategies selects:
\* _route_by_performance, _route_by_cost, _route_by_quality,
\* _route_by_balanced and _route_by_failover
RouteBy(routing_strategy, ags, available) ==
    CASE routing_strategy = "performance" ->
             MinBy(available, [id \in Range(available) |-> ags[id].avg_response_time])
      [] routing_strategy = "cost" ->
             MinBy(available, [id \in Range(available) |-> ags[id].cost_per_1k_tokens])
      [] routing_strategy = "quality" ->
             MaxBy(available, [id \in Range(available) |-> ags[id].quality_score])
      [] routing_strategy = "failover" ->
             Head(SortedDesc(available,
                             [id \in Range(available) |->
                                 ags[id].success_rate * ags[id].health_score]))
      [] OTHER ->
             MaxBy(available, [id \in Range(available) |-> BalancedScore(ags[id])])

\* MultiAgentManager._get_fallback_agents: the other available agents, the
\* most reliable first, three at most
_get_fallback_agents(ags, available, selected) ==
    LET others == SelectSeq(available, LAMBDA id : id # selected)
        sorted == SortedDesc(others, [id \in Range(others) |->
                                         ags[id].health_score * ags[id].success_rate])
    IN SubSeq(sorted, 1, IF Len(sorted) < 3 THEN Len(sorted) ELSE 3)

\* MultiAgentManager._estimate_cost, in nano-dollars: 1.3 tokens for every
\* word of str(messages), which has three words for the keys and the role of
\* a message besides the words of its content, and the one word "[]" when
\* there is no message
_estimate_cost(agent, request_data) ==
    LET messages == Get(request_data, "messages", <<>>)
        words == IF messages = <<>> THEN 1
                 ELSE 3 * Len(messages) + WordCount(Concat(
                          [i \in 1..Len(messages) |-> messages[i] \o <<" ">>]))
    IN (words * 13 * agent.cost_per_1k_tokens) \div 10

\* MultiAgentManager._estimate_latency, in milliseconds: str(messages) has
\* 31 characters around the content of a message, two between messages and
\* the two brackets
_estimate_latency(agent, request_data) ==
    LET messages == Get(request_data, "messages", <<>>)
        length == IF messages = <<>> THEN 2
                  ELSE TotalChars(messages) + 33 * Len(messages)
        complexity_factor == IF length < 2000 THEN length ELSE 2000
    IN (agent.avg_response_time * (10000 + complexity_factor)) \div 10000

\* MultiAgentManager._calculate_confidence, in thousandths.  The success
\* rate performance_metrics holds for an agent is the agent's own: both are
\* written by _update_agent_metrics only, and an agent that was never
\* reported has success rate 1.0, the factor of an absent entry.
_calculate_confidence(agent) ==
    LET base_confidence == (agent.health_score + agent.success_rate) \div 2
        performance_factor == IF agent.success_rate < 1000 THEN agent.success_rate ELSE 1000
        adjusted == (base_confidence * performance_factor) \div 1000
    IN IF adjusted < 1000 THEN adjusted ELSE 1000

\* route_request once the available agents are known
RoutingDecision(ags, available, routing_strategy, selected, request_data) ==
    Return([selected_agent |-> selected,
            routing_reason |-> routing_strategy,
            estimated_cost |-> _estimate_cost(ags[selected], request_data),
            estimated_latency |-> _estimate_latency(ags[selected], request_data),
            confidence_score |-> _calculate_confidence(ags[selected]),
            fallback_agents |-> _get_fallback_agents(ags, available, selected)])

\* MultiAgentManager.route_request
route_request(ags, request_data, agent_type, routing_strategy) ==
    IF _get_available_agents(ags, agent_type) = <<>>
    THEN Raise("ValueError")
    ELSE RoutingDecision(ags, _get_available_agents(ags, agent_type), routing_strategy,
                         RouteBy(routing_strategy, ags,
                                 _get_available_agents(ags, agent_type)),
                         request_data)

\* _log_routing_decision as route_request would be if it counted the routing
\* as an outcome of the selected agent
_log_routing_decision_ReportsOutcome(ags, decision) ==
    [ags EXCEPT ![decision.selected_agent] =
        _update_agent_metrics(@, 0, TRUE, [success |-> TRUE])]

\* MultiAgentManager._log_routing_decision: the agents after a decision is
\* logged.  The entry goes to routing_history, which no routing reads; the
\* agents are as they were.
_log_routing_decision(ags, decision) == ags

\* the keys of PROVIDERS (proxy/ai_providers.py)
ProviderKeys == {"openai", "anthropic"}

\* {**request_data, "model": agent.model}
ModelRequest(agent, request_data) == ("model" :> agent.model) @@ request_data

\* PROVIDERS[agent.provider].proxy_request("chat/completions", model_request,
\* {}, user_id, team_id)
ProviderProxyCall(agent, request_data, user_id, team_id, response, ps, clock) ==
    IF agent.provider = "openai"
    THEN OpenAIProxy_proxy_request(ps, ModelRequest(agent, request_data), user_id,
                                   team_id, response, clock)
    ELSE AnthropicProxy_proxy_request(ModelRequest(agent, request_data), user_id,
                                      team_id, response)

\* one attempt of the dispatcher on an agent: the provider lookup and, when
\* the provider is registered, the proxy call (call is what it did)
Attempt(agent_id, agent, request_data, call) ==
    CASE agent.provider \notin ProviderKeys ->
             [agent_id |-> agent_id, kind |-> "raise", error |-> "ValueError",
              posted |-> <<>>]
      [] agent.provider \in ProviderKeys /\ call.outcome.kind = "raise" ->
             [agent_id |-> agent_id, kind |-> "raise", error |-> call.outcome.error,
              posted |-> Posted(call.steps, ModelRequest(agent, request_data))]
      [] OTHER ->
             [agent_id |-> agent_id, kind |-> "return", response |-> call.outcome.value,
              posted |-> Posted(call.steps, ModelRequest(agent, request_data))]

\* the attempt on agent_id of ags
AttemptOn(ags, agent_id, request_data, user_id, team_id, response, ps, clock) ==
    Attempt(agent_id, ags[agent_id], request_data,
            ProviderProxyCall(ags[agent_id], request_data, user_id, team_id, response,
                              ps, clock))

\* the attempts of the fallback loop of execute_request: one
\* _execute_fallback_request per fallback agent, in order, up to and
\* including the first that returns
RECURSIVE FallbackAttempts(_, _, _, _, _, _, _, _)
FallbackAttempts(ags, fallback_agents, request_data, user_id, team_id, response, ps, clock) ==
    IF fallback_agents = <<>> THEN <<>>
    ELSE LET attempt == AttemptOn(ags, Head(fallback_agents), request_data, user_id,
                                  team_id, response, ps, clock)
         IN IF attempt.kind = "return" THEN <<attempt>>
            ELSE <<attempt>> \o FallbackAttempts(ags, Tail(fallback_agents), request_data,
                                                 user_id, team_id, response, ps, clock)

\* agents after an attempt that returned: the proxy's response is reported
\* with the success it carries
ReportResponse(ags, attempt, duration) ==
    [ags EXCEPT ![attempt.agent_id] =
        _update_agent_metrics(@, duration, Get(attempt.response, "success", FALSE),
                              attempt.response)]

\* execute_request, the except branch (lines 450-468): the failure of the
\* selected agent is reported, then the fallbacks are tried
ExecuteFallbacks(ags, decision, primary, fallbacks, duration) ==
    LET failed == [ags EXCEPT ![decision.selected_agent] =
                      _update_agent_metrics(@, duration, FALSE, [error |-> primary.error])]
        last == fallbacks[Len(fallbacks)]
    IN IF fallbacks # <<>> /\ last.kind = "return"
       THEN [agents |-> ReportResponse(failed, last, duration),
             attempts |-> <<primary>> \o fallbacks,
             result |-> [success |-> TRUE, agent_id |-> last.agent_id,
                         fallback_used |-> TRUE, response |-> last.response]]
       ELSE [agents |-> failed,
             attempts |-> <<primary>> \o fallbacks,
             result |-> [success |-> FALSE, error |-> primary.error,
                         agent_id |-> decision.selected_agent,
                         fallback_attempted |-> TRUE]]

\* execute_request once the attempt on the selected agent is made; ags
\* already counts the request
ExecuteAfterPrimary(ags, decision, primary, request_data, user_id, team_id, response, duration, ps, clock) ==
    IF primary.kind = "return"
    THEN [agents |-> ReportResponse(ags, primary, duration),
          attempts |-> <<primary>>,
          result |-> [success |-> TRUE, agent_id |-> primary.agent_id,
                      routing_reason |-> decision.routing_reason,
                      response |-> primary.response]]
    ELSE ExecuteFallbacks(ags, decision, primary,
                          FallbackAttempts(ags, decision.fallback_agents, request_data,
                                           user_id, team_id, response, ps, clock),
                          duration)

\* MultiAgentManager.execute_request
execute_request(ags, decision, request_data, user_id, team_id, response, duration, ps, clock) ==
    ExecuteAfterPrimary(
        [ags EXCEPT ![decision.selected_agent].total_requests = @ + 1],
        decision,
        AttemptOn(ags, decision.selected_agent, request_data, user_id, team_id, response,
                  ps, clock),
        request_data, user_id, team_id, response, duration, ps, clock)

(* The inputs of the agent endpoints *)

\* the body of a /multi-agent/route request
AgentRequestInputs == {[messages |-> << <<"h", "i">> >>]}

\* what a provider would answer to the dispatcher's call
AgentResponses ==
    {[kind |-> "response", status_code |-> 200, json |-> TRUE,
      data |-> [usage |-> [input_tokens |-> 12, output_tokens |-> 30]]],
     [kind |-> "raise", error |-> "ReadTimeout"]}

\* POST /multi-agent/route (main.py) when route_request raises: the handler
\* answers 500
RouteFailed(agent_type, routing_strategy, available, routed) ==
    /\ dispatch_log' = [made |-> TRUE, agent_type |-> agent_type,
                        routing_strategy |-> routing_strategy, available |-> available,
                        routed |-> routed, attempts |-> <<>>, http_status |-> 500]
    /\ UNCHANGED <<agents, provider_calls>>

\* POST /multi-agent/route (main.py) when route_request returns: executed is
\* what execute_request did with the decision
RouteExecuted(agent_type, routing_strategy, available, routed, executed) ==
    /\ dispatch_log' = [made |-> TRUE, agent_type |-> agent_type,
                        routing_strategy |-> routing_strategy, available |-> available,
                        routed |-> routed, attempts |-> executed.attempts,
                        result |-> executed.result, http_status |-> 200]
    /\ agents' = executed.agents
    /\ provider_calls' =
           provider_calls
           \o Concat([i \in 1..Len(executed.attempts) |-> executed.attempts[i].posted])

\* POST /multi-agent/route (main.py): route_request, then execute_request
\* with its decision
RouteAgentRequest(agent_type, routing_strategy, request_data, user_id, team_id, response, duration) ==
    /\ ops < MaxDispatches
    /\ \E available \in {_get_available_agents(agents, agent_type)},
          routed \in {route_request(agents, request_data, agent_type, routing_strategy)} :
           IF routed.kind = "raise"
           THEN RouteFailed(agent_type, routing_strategy, available, routed)
           ELSE \E executed \in {execute_request(_log_routing_decision(agents, routed.value),
                                                 routed.value, request_data,
                                                 user_id, team_id, response, duration,
                                                 policies, Calendar(now))} :
                    RouteExecuted(agent_type, routing_strategy, available, routed, executed)
    /\ ops' = ops + 1
    /\ UNCHANGED <<policyVars, proxy_log, cpiVars, wsVars, now>>

NextAgents ==
    \/ \E agent_type \in AgentTypes, routing_strategy \in RoutingStrategies,
          request_data \in AgentRequestInputs, user_id \in {"alice"}, team_id \in Teams,
          response \in AgentResponses, duration \in {0, 50} :
           RouteAgentRequest(agent_type, routing_strategy, request_data, user_id, team_id,
                             response, duration)
    \/ Tick


(* The outcome reports of the dispatcher, applied in any order *)

\* self._update_agent_metrics(agent, duration, success, response)
ReportOutcome(agent_id, duration, success) ==
    /\ ops < MaxReports
    /\ agents' = [agents EXCEPT ![agent_id] =
                     _update_agent_metrics(@, duration, success, [success |-> success])]
    /\ dispatch_log' = [made |-> FALSE, reported |-> agent_id, duration |-> duration,
                        success |-> success, before |-> agents[agent_id]]
    /\ ops' = ops + 1
    /\ UNCHANGED <<policyVars, proxyVars, cpiVars, wsVars, now>>

\* multi_agent_manager.route_request(request_data, agent_type,
\* routing_strategy) on its own.  The log keeps the decision and, when the
\* operation before was a routing too, its arguments and decision.
RouteRequest(agent_type, routing_strategy, request_data) ==
    /\ ops < MaxReports
    /\ \E routed \in {route_request(agents, request_data, agent_type, routing_strategy)} :
           /\ dispatch_log' =
                  [made |-> FALSE,
                   routing |-> <<request_data, agent_type, routing_strategy>>,
                   routed |-> routed,
                   earlier |-> IF "routing" \in DOMAIN dispatch_log
                               THEN [routing |-> dispatch_log.routing,
                                     routed |-> dispatch_log.routed]
                               ELSE [routing |-> <<>>]]
           /\ agents' = IF routed.kind = "return"
                        THEN _log_routing_decision(agents, routed.value)
                        ELSE agents
    /\ ops' = ops + 1
    /\ UNCHANGED <<policyVars, proxyVars, cpiVars, wsVars, now>>

NextMetrics ==
    \* the agents that receive the reports, and the durations, in
    \* milliseconds, of the attempts that are reported
    \/ \E agent_id \in {"OpenAI_gpt-4o_chat", "Anthropic_claude-3.5-sonnet_chat"},
          duration \in {0, 1900, 60000}, success \in BOOLEAN :
           ReportOutcome(agent_id, duration, success)
    \/ \E agent_type \in {"chat", "specialized"},
          routing_strategy \in {"cost", "performance", "failover"},
          request_data \in AgentRequestInputs :
           RouteRequest(agent_type, routing_strategy, request_data)


-----------------------------------------------------------------------------
(* services/cross_provider_intelligence.py: the provider health table and   *)
(* the routing recommendation.  Times are in minutes, response times in     *)
(* milliseconds, rates and scores in thousandths, costs in micro-dollars.   *)

\* datetime.now() at clock step t, in minutes since the start of the run (the
\* steps of Calendar: monday 10h, saturday 20h, then tuesday 20h)
Minutes(t) == IF t = 0 THEN 0 ELSE 7800 + 4320 * (t - 1)

\* timedelta(minutes=5) of _mark_provider_unhealthy
CooldownMinutes == 5

\* failover_config['error_rate_threshold']
error_rate_threshold == 100

\* the providers _get_healthy_providers goes through, in order
ProviderNames == <<"openai", "anthropic">>

\* statistics.mean of a list of integers
RECURSIVE Sum(_)
Sum(xs) == IF xs = <<>> THEN 0 ELSE Head(xs) + Sum(Tail(xs))
Mean(xs) == Sum(xs) \div Len(xs)

\* xs[-n:]
LastN(xs, n) == IF Len(xs) <= n THEN xs ELSE SubSeq(xs, Len(xs) - n + 1, Len(xs))

\* CrossProviderIntelligence._get_healthy_providers: the names of the
\* providers, other than the excluded, whose status says healthy (a provider
\* without a status is healthy)
_get_healthy_providers(status, exclude) ==
    SelectSeq(ProviderNames,
              LAMBDA provider :
                  /\ provider \notin exclude
                  /\ Get(Get(status, provider, [healthy |-> TRUE]), "healthy", TRUE))

\* CrossProviderIntelligence._mark_provider_unhealthy
_mark_provider_unhealthy(status, provider, reason, t) ==
    (provider :> [healthy |-> FALSE, reason |-> reason,
                  marked_unhealthy_at |-> Minutes(t),
                  retry_after |-> Minutes(t) + CooldownMinutes]) @@ status

\* CrossProviderIntelligence._update_provider_health; the success rates are
\* 0 or 1 and their mean is in thousandths
_update_provider_health(status, provider, metrics, t) ==
    LET recent_success_rate ==
            IF metrics.success_rate # <<>>
            THEN (1000 * Sum(LastN(metrics.success_rate, 10)))
                 \div Len(LastN(metrics.success_rate, 10))
            ELSE 1000
    IN IF recent_success_rate < error_rate_threshold
       THEN _mark_provider_unhealthy(status, provider, "low_success_rate", t)
       ELSE (provider :> [healthy |-> TRUE, last_check |-> Minutes(t),
                          success_rate |-> recent_success_rate]) @@ status

\* the metrics track_provider_performance creates for a model it has not seen
NewMetrics(t) ==
    [response_times |-> <<>>, success_rate |-> <<>>, costs |-> <<>>,
     quality_scores |-> <<>>, request_count |-> 0, last_updated |-> Minutes(t)]

\* provider_performance[provider][model], or the fresh metrics
MetricsOf(performance, provider, model, t) ==
    Get(Get(performance, provider, <<>>), model, NewMetrics(t))

\* CrossProviderIntelligence.track_provider_performance: the metrics of the
\* model after the report (the last 100 data points are kept); quality_score
\* is None or a score
TrackedMetrics(metrics, response_time, success, cost, quality_score, t) ==
    [response_times |-> LastN(Append(metrics.response_times, response_time), 100),
     success_rate |-> LastN(Append(metrics.success_rate, IF success THEN 1 ELSE 0), 100),
     costs |-> LastN(Append(metrics.costs, cost), 100),
     quality_scores |-> IF quality_score.kind = "none" THEN metrics.quality_scores
                        ELSE LastN(Append(metrics.quality_scores, quality_score.value), 100),
     request_count |-> metrics.request_count + 1,
     last_updated |-> Minutes(t)]

\* CrossProviderIntelligence._assess_request_complexity
_assess_request_complexity(request_data) ==
    LET messages == Get(request_data, "messages", <<>>)
        total_tokens == Sum([i \in 1..Len(messages) |-> WordCount(messages[i])])
        max_tokens == Get(request_data, "max_tokens", 100)
    IN IF total_tokens > 1000 \/ max_tokens > 500 THEN "high"
       ELSE IF total_tokens > 200 \/ max_tokens > 100 THEN "medium"
       ELSE "low"

\* CrossProviderIntelligence._get_equivalent_models
_get_equivalent_models(original_model, target_provider) ==
    CASE target_provider = "openai" /\ original_model = "gpt-4" -> <<"gpt-4", "gpt-4-turbo">>
      [] target_provider = "openai" /\ original_model = "gpt-3.5-turbo" -> <<"gpt-3.5-turbo">>
      [] target_provider = "openai" /\ original_model = "claude-3-sonnet" -> <<"gpt-4">>
      [] target_provider = "openai" /\ original_model = "claude-3-haiku" -> <<"gpt-3.5-turbo">>
      [] target_provider = "anthropic" /\ original_model = "gpt-4" -> <<"claude-3-sonnet">>
      [] target_provider = "anthropic" /\ original_model = "gpt-3.5-turbo" -> <<"claude-3-haiku">>
      [] target_provider = "anthropic" /\ original_model = "claude-3-sonnet" ->
             <<"claude-3-sonnet">>
      [] target_provider = "anthropic" /\ original_model = "claude-3-haiku" ->
             <<"claude-3-haiku">>
      [] OTHER -> <<>>

\* the pricing table of CrossProviderIntelligence._estimate_cost, in
\* micro-dollars per 1K tokens
BaseCost(provider, model) ==
    CASE provider = "openai" /\ model = "gpt-4" -> 30000
      [] provider = "anthropic" /\ model = "claude-3-sonnet" -> 15000
      [] provider = "anthropic" /\ model = "claude-3-haiku" -> 1250
      [] OTHER -> 2000

\* CrossProviderIntelligence._estimate_cost
CPI_estimate_cost(provider, model, request_data) ==
    LET messages == Get(request_data, "messages", <<>>)
        estimated_tokens == TotalChars(messages) \div 4
        max_tokens == Get(request_data, "max_tokens", 100)
    IN ((estimated_tokens + max_tokens) * BaseCost(provider, model)) \div 1000

\* the lesser of two numbers
Min2(a, b) == IF a < b THEN a ELSE b

\* statistics.mean raises StatisticsError on an empty list: the metrics hold
\* a list that is empty (quality_scores, when no report carried a score)
EmptySample(performance) ==
    \E key \in {"response_times", "success_rate", "quality_scores"} :
        key \in DOMAIN performance /\ performance[key] = <<>>

\* CrossProviderIntelligence._calculate_routing_score, in thousandths of a
\* point; performance is the metrics of the model, or the empty dict, and
\* holds no empty list
_calculate_routing_score(performance, complexity, model, estimated_cost) ==
    LET avg_response_time == Mean(Get(performance, "response_times", <<2000>>))
        success_rate == IF "success_rate" \in DOMAIN performance
                        THEN (1000 * Sum(performance.success_rate))
                             \div Len(performance.success_rate)
                        ELSE 950
        avg_quality == Mean(Get(performance, "quality_scores", <<8000>>))
        score == 10000 - Min2(avg_response_time \div 2, 3000)
                 + (success_rate - 500) * 4
                 + ((avg_quality - 5000) * 2) \div 5
                 - Min2(estimated_cost \div 10, 1000)
                 - (IF /\ complexity = "high"
                       /\ model \notin {"gpt-4", "gpt-4-turbo", "claude-3-sonnet"}
                    THEN 2000 ELSE 0)
    IN IF score < 0 THEN 0 ELSE score

\* CrossProviderIntelligence._evaluate_routing_option: the option, None when
\* it is over the budget, or the StatisticsError of the score
_evaluate_routing_option(performance, provider, model, complexity, budget_limit, request_data) ==
    CASE budget_limit.kind # "none" /\ budget_limit.value # 0
         /\ CPI_estimate_cost(provider, model, request_data) > budget_limit.value -> None
      [] EmptySample(Get(Get(performance, provider, <<>>), model, <<>>)) ->
             Raise("StatisticsError")
      [] OTHER ->
             [kind |-> "option", provider |-> provider, model |-> model,
              estimated_cost |-> CPI_estimate_cost(provider, model, request_data),
              score |-> _calculate_routing_score(
                            Get(Get(performance, provider, <<>>), model, <<>>),
                            complexity, model,
                            CPI_estimate_cost(provider, model, request_data)),
              reason |-> "intelligent_routing_score"]

\* the evaluations intelligent_routing makes: for every healthy provider, in
\* order, one per equivalent model
Evaluations(performance, healthy, original_model, complexity, budget_limit, request_data) ==
    Concat([p \in 1..Len(healthy) |->
               [m \in 1..Len(_get_equivalent_models(original_model, healthy[p])) |->
                   _evaluate_routing_option(
                       performance, healthy[p],
                       _get_equivalent_models(original_model, healthy[p])[m],
                       complexity, budget_limit, request_data)]])

\* CrossProviderIntelligence._select_best_routing_option: the options by
\* score, the best first, and by cost when cost is one of the first two
\* priorities; None when there is no option
_select_best_routing_option(options, preferences) ==
    LET by_score == SortedDesc([i \in 1..Len(options) |-> i],
                               [i \in 1..Len(options) |-> options[i].score])
        priorities == Get(preferences, "priorities", <<"quality", "speed", "cost">>)
        by_cost == SortedDesc(by_score,
                              [i \in 1..Len(options) |-> 0 - options[i].estimated_cost])
    IN IF options = <<>> THEN None
       ELSE IF \E k \in 1..Min2(2, Len(priorities)) : priorities[k] = "cost"
            THEN options[by_cost[1]]
            ELSE options[by_score[1]]

\* the recommendation intelligent_routing falls back to
DefaultOption(original_model, reason) ==
    [kind |-> "option", provider |-> "openai", model |-> original_model,
     reason |-> reason, estimated_cost |-> 1000]

\* intelligent_routing once the healthy providers are known and the options
\* evaluated
RoutingChoice(healthy, evaluations, original_model, user_preferences) ==
    CASE healthy = <<>> -> Return(DefaultOption(original_model, "fallback_default"))
      [] healthy # <<>> /\ \E i \in 1..Len(evaluations) : evaluations[i].kind = "raise" ->
             Raise("StatisticsError")
      [] OTHER ->
             LET best == _select_best_routing_option(
                             SelectSeq(evaluations, LAMBDA o : o.kind = "option"),
                             user_preferences)
             IN IF best.kind = "none"
                THEN Return(DefaultOption(original_model, "no_better_option"))
                ELSE Return(best)

\* CrossProviderIntelligence.intelligent_routing
intelligent_routing(status, performance, request_data, user_preferences) ==
    RoutingChoice(
        _get_healthy_providers(status, {}),
        Evaluations(performance, _get_healthy_providers(status, {}),
                    Get(request_data, "model", "gpt-3.5-turbo"),
                    _assess_request_complexity(request_data),
                    IF "budget_limit" \in DOMAIN user_preferences
                    THEN IntValue(user_preferences.budget_limit) ELSE None,
                    request_data),
        Get(request_data, "model", "gpt-3.5-turbo"),
        user_preferences)

\* CrossProviderIntelligence.handle_failover, after the failed provider is
\* marked: the first alternative that has an equivalent model, or None
handle_failover(status, failed_provider, original_request) ==
    LET original_model == Get(original_request, "model", "gpt-3.5-turbo")
        alternatives ==
            SelectSeq(_get_healthy_providers(status, {failed_provider}),
                      LAMBDA provider :
                          _get_equivalent_models(original_model, provider) # <<>>)
    IN IF alternatives = <<>> THEN None
       ELSE [kind |-> "option", provider |-> Head(alternatives),
             model |-> Head(_get_equivalent_models(original_model, Head(alternatives))),
             original_provider |-> failed_provider, failover |-> TRUE]

(* The inputs of the provider intelligence operations *)

CpiRequests ==
    {[model |-> "gpt-4", max_tokens |-> 100, messages |-> << <<"h", "i">> >>],
     [model |-> "gpt-4o", max_tokens |-> 600, messages |-> << <<"h", "i">> >>],
     [model |-> "gpt-4", max_tokens |-> 0, messages |-> <<>>]}

\* user_preferences: none, cost first, a budget of 1000 micro-dollars
CpiPreferences ==
    {<<>>, [priorities |-> <<"cost", "quality">>], [budget_limit |-> 1000]}

\* POST /intelligence/routing/optimize (main.py): intelligent_routing
IntelligentRouting(request_data, user_preferences) ==
    /\ ops < MaxCpiOps
    /\ \E result \in {intelligent_routing(provider_status, provider_performance,
                                         request_data, user_preferences)} :
           cpi_log' = [made |-> TRUE, op |-> "intelligent_routing",
                       request_data |-> request_data,
                       user_preferences |-> user_preferences, at |-> now,
                       status_before |-> provider_status, result |-> result]
    /\ ops' = ops + 1
    /\ UNCHANGED <<provider_status, provider_performance>>
    /\ UNCHANGED <<policyVars, proxyVars, agentVars, wsVars, now>>

\* cross_provider_intelligence.handle_failover(failed_provider, request)
HandleFailover(failed_provider, original_request) ==
    /\ ops < MaxCpiOps
    /\ \E marked \in {_mark_provider_unhealthy(provider_status, failed_provider,
                                              "api_failure", now)} :
           /\ provider_status' = marked
           /\ cpi_log' = [made |-> TRUE, op |-> "handle_failover",
                          provider |-> failed_provider, at |-> now,
                          status_before |-> provider_status,
                          result |-> handle_failover(marked, failed_provider,
                                                     original_request)]
    /\ ops' = ops + 1
    /\ UNCHANGED provider_performance
    /\ UNCHANGED <<policyVars, proxyVars, agentVars, wsVars, now>>

\* cross_provider_intelligence.track_provider_performance(provider, model,
\* response_time, success, cost, quality_score)
TrackProviderPerformance(provider, model, response_time, success, cost, quality_score) ==
    /\ ops < MaxCpiOps
    /\ \E metrics \in {TrackedMetrics(MetricsOf(provider_performance, provider, model, now),
                                     response_time, success, cost, quality_score, now)} :
           /\ provider_performance' =
                  (provider :> ((model :> metrics)
                                @@ Get(provider_performance, provider, <<>>)))
                  @@ provider_performance
           /\ provider_status' = _update_provider_health(provider_status, provider,
                                                         metrics, now)
    /\ cpi_log' = [made |-> TRUE, op |-> "track_provider_performance",
                   provider |-> provider, model |-> model, success |-> success,
                   at |-> now, status_before |-> provider_status]
    /\ ops' = ops + 1
    /\ UNCHANGED <<policyVars, proxyVars, agentVars, wsVars, now>>

NextCPI ==
    \/ \E request_data \in CpiRequests, user_preferences \in CpiPreferences :
           IntelligentRouting(request_data, user_preferences)
    \/ \E failed_provider \in Range(ProviderNames), original_request \in CpiRequests :
           HandleFailover(failed_provider, original_request)
    \* the (provider, model) reported; the quality score is none, or 9.0
    \/ \E reported \in {<<"openai", "gpt-4">>, <<"openai", "gpt-3.5-turbo">>,
                        <<"anthropic", "claude-3-sonnet">>},
          success \in BOOLEAN, quality_score \in {None, IntValue(9000)} :
           TrackProviderPerformance(reported[1], reported[2], 1000, success, 100,
                                    quality_score)
    \/ Tick

-----------------------------------------------------------------------------
(* services/ai_security_scanner.py: the verdict of the security scan, and   *)
(* POST /intelligence/security/scan of main.py.  A threat is the record a   *)
(* detector appends to threats_detected; the detectors are not modelled, a  *)
(* scan is given the threats its detectors find in the content.             *)

\* AISecurityScanner._calculate_threat_severity: the highest severity present
_calculate_threat_severity(threats) ==
    IF threats = <<>> THEN "low"
    ELSE LET severity_scores == [low |-> 1, medium |-> 2, high |-> 3, critical |-> 4]
             max_severity_score == CHOOSE s \in 1..4 :
                 /\ \E i \in 1..Len(threats) : severity_scores[threats[i].severity] = s
                 /\ \A i \in 1..Len(threats) : severity_scores[threats[i].severity] <= s
         IN  CHOOSE severity \in DOMAIN severity_scores :
                 severity_scores[severity] = max_severity_score

\* AISecurityScanner._should_block_request: the loop returns True at the first
\* critical or high threat, or at the first medium threat of a list that holds
\* two or more medium threats
_should_block_request(threats) ==
    \E i \in 1..Len(threats) :
        \/ threats[i].severity \in {"critical", "high"}
        \/ /\ threats[i].severity = "medium"
           /\ Cardinality({j \in 1..Len(threats) : threats[j].severity = "medium"}) >= 2

\* the end of AISecurityScanner.scan_request: the verdict over the threats
scan_request(threats) ==
    [threats_detected |-> threats,
     severity |-> _calculate_threat_severity(threats),
     blocked |-> _should_block_request(threats)]

\* scan_content of main.py, the one caller of scan_request that answers with
\* the verdict.  main.py binds no name ai_security_scanner (it has no import
\* of it, and services/ai_security_scanner.py is not importable: its line 359
\* is not Python), so evaluating ai_security_scanner.scan_request raises
\* NameError before any scan; the handler answers any exception with 500.
scan_content(threats) == [status_code |-> 500, detail |-> "NameError"]

\* threats the detectors produce (category, type, severity of their pattern)
ThreatInputs ==
    {[category |-> "jailbreak_attempt", type |-> "dan_style", severity |-> "critical"],
     [category |-> "prompt_injection", type |-> "ignore_instructions", severity |-> "high"],
     [category |-> "prompt_injection", type |-> "role_manipulation", severity |-> "medium"],
     [category |-> "adversarial_input", type |-> "excessive_repetition", severity |-> "medium"],
     [category |-> "adversarial_input", type |-> "low_character_diversity", severity |-> "low"]}

\* POST /intelligence/security/scan with a content in which the detectors find
\* the given threats
ScanContent(threats) ==
    /\ cpi_log' = [made |-> TRUE, op |-> "scan_content", threats |-> threats,
                   returned |-> scan_content(threats)]
    /\ UNCHANGED <<policyVars, proxyVars, agentVars, provider_status,
                   provider_performance, wsVars, now, ops>>

NextScan ==
    \E n \in 0..MaxThreats : \E threats \in [1..n -> ThreatInputs] : ScanContent(threats)

-----------------------------------------------------------------------------
(* services/websocket_service.py: LiveMonitoringService.  A WebSocket is
   named by the id of its connection; sockets holds, for every socket ever
   accepted, whether it is still open and the messages it was sent. *)

\* a string where None is possible too
StrValue(s) == [kind |-> "str", value |-> s]

\* websocket.send_text(json.dumps(data)): the sockets after the send, or the
\* exception of a socket that is closed
send_text(socks, websocket, data) ==
    IF socks[websocket].open
    THEN Return([socks EXCEPT ![websocket].received = Append(@, data)])
    ELSE Raise("RuntimeError")

\* the state of the service: the two dicts, and the sockets
WsState(conns, meta, socks) ==
    [connections |-> conns, connection_metadata |-> meta, sockets |-> socks]

\* a dict without a key
Without(d, keys) == [k \in DOMAIN d \ keys |-> d[k]]

\* LiveMonitoringService.disconnect
disconnect(state, connection_id) ==
    IF connection_id \in DOMAIN state.connections
    THEN [state EXCEPT !.connections = Without(@, {connection_id}),
                       !.connection_metadata = Without(@, {connection_id})]
    ELSE state

\* LiveMonitoringService.send_to_connection
send_to_connection(state, connection_id, data) ==
    IF connection_id \notin DOMAIN state.connections THEN state
    ELSE IF send_text(state.sockets, state.connections[connection_id], data).kind = "return"
         THEN [state EXCEPT !.sockets =
                   send_text(state.sockets, state.connections[connection_id], data).value]
         ELSE disconnect(state, connection_id)

\* LiveMonitoringService.connect: the connection gets a fresh id
connect(state, websocket, user_id, team_id, t) ==
    send_to_connection(
        [state EXCEPT !.connections = (websocket :> websocket) @@ @,
                      !.connection_metadata =
                          (websocket :> [user_id |-> user_id, team_id |-> team_id,
                                         connected_at |-> t, last_ping |-> t]) @@ @],
        websocket,
        [type |-> "connection_established", connection_id |-> websocket,
         timestamp |-> t, message |-> "Live monitoring connected"])

\* broadcast_to_all without its clean-up: the connections whose send raised
\* stay in the registry
broadcast_to_all_NoCleanUp(state, data) ==
    [state EXCEPT !.sockets =
        [s \in DOMAIN state.sockets |->
            IF state.sockets[s].open /\ \E c \in DOMAIN state.connections :
                                            state.connections[c] = s
            THEN [state.sockets[s] EXCEPT !.received = Append(@, data)]
            ELSE state.sockets[s]]]

\* LiveMonitoringService.broadcast_to_all: the data goes to every connection;
\* those whose send raised are disconnected
broadcast_to_all(state, data) ==
    [connections |->
         Without(state.connections,
                 {c \in DOMAIN state.connections : ~state.sockets[state.connections[c]].open}),
     connection_metadata |->
         Without(state.connection_metadata,
                 {c \in DOMAIN state.connections : ~state.sockets[state.connections[c]].open}),
     sockets |->
         [s \in DOMAIN state.sockets |->
             IF state.sockets[s].open /\ \E c \in DOMAIN state.connections :
                                             state.connections[c] = s
             THEN [state.sockets[s] EXCEPT !.received = Append(@, data)]
             ELSE state.sockets[s]]]

\* the live_data of LiveMonitoringService.stream_request_live
RequestLiveData(request_data, t) ==
    [type |-> "live_request", timestamp |-> t,
     request_id |-> Get(request_data, "request_id", None),
     provider |-> Get(request_data, "provider", None),
     user_id |-> Get(request_data, "user_id", None),
     team_id |-> Get(request_data, "team_id", None),
     status |-> Get(request_data, "status", "processing"),
     blocked |-> Get(request_data, "blocked", FALSE)]

\* the live_data of LiveMonitoringService.stream_response_live
ResponseLiveData(response_data, t) ==
    [type |-> "live_response", timestamp |-> t,
     request_id |-> Get(response_data, "request_id", None),
     status |-> Get(response_data, "status", "completed"),
     success |-> Get(response_data, "success", TRUE)]

\* the live_data of LiveMonitoringService.stream_policy_violation
PolicyViolationLiveData(violation_data, t) ==
    [type |-> "policy_violation", timestamp |-> t,
     request_id |-> Get(violation_data, "request_id", None),
     user_id |-> Get(violation_data, "user_id", None),
     team_id |-> Get(violation_data, "team_id", None),
     action |-> Get(violation_data, "action", None),
     severity |-> Get(violation_data, "severity", "warning")]

(* The inputs of the live monitoring service *)

WsRequests ==
    {[request_id |-> "r1", provider |-> "openai", user_id |-> StrValue("alice"),
      team_id |-> StrValue("red"), status |-> "starting"],
     [request_id |-> "r2", provider |-> "openai", user_id |-> StrValue("mallory"),
      team_id |-> StrValue("blue"), status |-> "starting"]}

WsViolations ==
    {[request_id |-> "r2", user_id |-> StrValue("mallory"), team_id |-> StrValue("blue"),
      action |-> "block", severity |-> "critical"]}

\* the service as the three variables hold it
WsNow == WsState(connections, connection_metadata, sockets)

\* the variables take the state an operation returns; data is what the
\* operation sent
WsBecomes(after, op, data) ==
    /\ connections' = after.connections
    /\ connection_metadata' = after.connection_metadata
    /\ sockets' = after.sockets
    /\ ws_log' = [made |-> TRUE, op |-> op, data |-> data, before |-> WsNow]
    /\ ops' = ops + 1
    /\ UNCHANGED <<publishing, policyVars, proxyVars, agentVars, cpiVars, now>>

\* /ws/live-monitor (main.py): the socket is accepted and connected
Connect(user_id, team_id) ==
    /\ ops < MaxWsOps
    /\ Cardinality(DOMAIN sockets) < MaxConnections
    /\ \E websocket \in {Cardinality(DOMAIN sockets) + 1} :
       \E after \in {connect(WsState(connections, connection_metadata,
                                     (websocket :> [open |-> TRUE, received |-> <<>>])
                                     @@ sockets),
                             websocket, user_id, team_id, now)} :
           WsBecomes(after, "connect", websocket)

\* /ws/live-monitor (main.py): the client went away, WebSocketDisconnect
Disconnect(connection_id) ==
    /\ ops < MaxWsOps
    /\ \E after \in {disconnect(WsState(connections, connection_metadata,
                                        [sockets EXCEPT ![connection_id].open = FALSE]),
                                connection_id)} :
           WsBecomes(after, "disconnect", connection_id)

\* a socket closes while the service still holds its connection
SocketCloses(websocket) ==
    /\ ops < MaxWsOps
    /\ sockets[websocket].open
    /\ websocket \in DOMAIN connections
    /\ sockets' = [sockets EXCEPT ![websocket].open = FALSE]
    /\ ws_log' = [made |-> TRUE, op |-> "close", data |-> websocket, before |-> WsNow]
    /\ ops' = ops + 1
    /\ UNCHANGED <<connections, connection_metadata, publishing>>
    /\ UNCHANGED <<policyVars, proxyVars, agentVars, cpiVars, now>>

\* LiveMonitoringService.stream_request_live
StreamRequestLive(request_data) ==
    /\ ops < MaxWsOps
    /\ \E data \in {RequestLiveData(request_data, now)} :
           WsBecomes(broadcast_to_all(WsNow, data), "publish", data)

\* LiveMonitoringService.stream_response_live
StreamResponseLive(response_data) ==
    /\ ops < MaxWsOps
    /\ \E data \in {ResponseLiveData(response_data, now)} :
           WsBecomes(broadcast_to_all(WsNow, data), "publish", data)

\* LiveMonitoringService.stream_policy_violation
StreamPolicyViolation(violation_data) ==
    /\ ops < MaxWsOps
    /\ \E data \in {PolicyViolationLiveData(violation_data, now)} :
           WsBecomes(broadcast_to_all(WsNow, data), "publish", data)

(* A broadcast as a task: broadcast_to_all is suspended at each await of     *)
(* websocket.send_text, and connect and disconnect run meanwhile.            *)

\* no broadcast is in progress
NotPublishing == [active |-> FALSE]

\* next() of the iterator of self.connections.items() (CPython's dict
\* iterator), as the set of its possible outcomes.  used is the size the dict
\* had when the iterator was made, pos the key it returned last (the dict
\* keeps insertion order and keys are issued in increasing order), left the
\* number of items it has yet to return.  A dict of another size raises
\* "dictionary changed size during iteration"; an item found when none is
\* left raises "dictionary keys changed during iteration" from Python 3.8
\* on and is returned before.
DictNext(conns, iterator) ==
    LET ahead == {k \in DOMAIN conns : k > iterator.pos}
        key == CHOOSE k \in ahead : \A j \in ahead : k <= j
    IN IF iterator.used # Cardinality(DOMAIN conns) THEN {Raise("RuntimeError")}
       ELSE IF ahead = {} THEN {[kind |-> "stop"]}
       ELSE IF iterator.left = 0 THEN {Raise("RuntimeError"), Return(key)}
       ELSE {Return(key)}

\* the broadcast suspended in the send to the item the iterator returned
SuspendedAtSend(conns, data, iterator, connection_id, disconnected) ==
    [active |-> TRUE, data |-> data, connection_id |-> connection_id,
     websocket |-> conns[connection_id],
     iterator |-> [used |-> iterator.used, pos |-> connection_id,
                   left |-> iterator.left - 1],
     disconnected |-> disconnected]

\* the clean-up loop of broadcast_to_all: self.disconnect of each collected id
RECURSIVE DisconnectAll(_, _)
DisconnectAll(state, disconnected) ==
    IF disconnected = <<>> THEN state
    ELSE DisconnectAll(disconnect(state, Head(disconnected)), Tail(disconnected))

\* broadcast_to_all up to its first await: it returns at once when there is
\* no connection, and is otherwise suspended in the send to the first item
BroadcastBegins(data) ==
    /\ ops < MaxWsOps
    /\ ~publishing.active
    /\ publishing' =
           IF DOMAIN connections = {}
           THEN [active |-> FALSE, data |-> data, outcome |-> "returned"]
           ELSE SuspendedAtSend(connections, data,
                                [used |-> Cardinality(DOMAIN connections), pos |-> 0,
                                 left |-> Cardinality(DOMAIN connections)],
                                CHOOSE k \in DOMAIN connections :
                                    \A j \in DOMAIN connections : k <= j,
                                <<>>)
    /\ ops' = ops + 1
    /\ UNCHANGED <<connections, connection_metadata, sockets, ws_log>>
    /\ UNCHANGED <<policyVars, proxyVars, agentVars, cpiVars, now>>

\* the loop goes on after a send: item is what next() did
BroadcastGoesOn(item, socks, disconnected) ==
    /\ sockets' = socks
    /\ IF item.kind = "return"
       THEN /\ publishing' = SuspendedAtSend(connections, publishing.data,
                                             publishing.iterator, item.value, disconnected)
            /\ UNCHANGED <<connections, connection_metadata>>
       ELSE IF item.kind = "stop"
       THEN /\ publishing' = [active |-> FALSE, data |-> publishing.data,
                              outcome |-> "returned"]
            /\ \E after \in {DisconnectAll(WsNow, disconnected)} :
                   /\ connections' = after.connections
                   /\ connection_metadata' = after.connection_metadata
       ELSE /\ publishing' = [active |-> FALSE, data |-> publishing.data,
                              outcome |-> "raised", error |-> item.error]
            /\ UNCHANGED <<connections, connection_metadata>>

\* broadcast_to_all from one await to the next, or to its end: the send
\* returns or raises (the connection is then collected), the for statement
\* asks the iterator for the next item, and after the last item the
\* collected connections are disconnected; an exception of next() is raised
\* by the for statement, outside the try of the loop body
BroadcastResumes ==
    /\ publishing.active
    /\ \E sent \in {send_text(sockets, publishing.websocket, publishing.data)},
          item \in DictNext(connections, publishing.iterator) :
           BroadcastGoesOn(item,
                           IF sent.kind = "return" THEN sent.value ELSE sockets,
                           IF sent.kind = "return" THEN publishing.disconnected
                           ELSE Append(publishing.disconnected, publishing.connection_id))
    /\ UNCHANGED <<ws_log, ops>>
    /\ UNCHANGED <<policyVars, proxyVars, agentVars, cpiVars, now>>

NextWs ==
    \* the team_id of /ws/live-monitor: none, or a team
    \/ \E team_id \in {None, StrValue("red"), StrValue("blue")} :
           Connect(StrValue("alice"), team_id)
    \/ \E connection_id \in DOMAIN connections : Disconnect(connection_id)
    \/ \E websocket \in DOMAIN sockets : SocketCloses(websocket)
    \/ \E request_data \in WsRequests : StreamRequestLive(request_data)
    \/ \E response_data \in {[request_id |-> "r1", status |-> "blocked", success |-> FALSE]} :
           StreamResponseLive(response_data)
    \/ \E violation_data \in WsViolations : StreamPolicyViolation(violation_data)
    \/ Tick

\* the operations next to which a broadcast runs as a task
NextWsTasks ==
    \/ \E team_id \in {None, StrValue("red")} : Connect(StrValue("alice"), team_id)
    \/ \E connection_id \in DOMAIN connections : Disconnect(connection_id)
    \/ \E websocket \in DOMAIN sockets : SocketCloses(websocket)
    \/ \E request_data \in WsRequests : BroadcastBegins(RequestLiveData(request_data, now))
    \/ BroadcastResumes

-----------------------------------------------------------------------------
(* The specifications: the state after start-up and, for each component,    *)
(* the behaviours of its operations                                         *)

Init ==
    /\ policies = DefaultPolicies
    /\ policy_call = NoCall
    /\ policy_result = NoResult
    /\ proxy_log = NoCall
    /\ provider_calls = <<>>
    /\ agents = DefaultAgents
    /\ dispatch_log = NoCall
    /\ provider_status = <<>>
    /\ provider_performance = <<>>
    /\ cpi_log = NoCall
    /\ connections = <<>>
    /\ connection_metadata = <<>>
    /\ sockets = <<>>
    /\ ws_log = NoCall
    /\ publishing = NotPublishing
    /\ now = 0
    /\ ops = 0

SpecPolicy == Init /\ [][NextPolicy]_vars
SpecProxy == Init /\ [][NextProxy]_vars
SpecAgents == Init /\ [][NextAgents]_vars
SpecMetrics == Init /\ [][NextMetrics]_vars
SpecCPI == Init /\ [][NextCPI]_vars
SpecWs == Init /\ [][NextWs]_vars
SpecScan == Init /\ [][NextScan]_vars
SpecWsTasks == Init /\ [][NextWsTasks]_vars

-----------------------------------------------------------------------------
(* Properties of the policy engine *)

\* the actions of the violations the last evaluation returned
ReturnedActions == {policy_result.violations[i].action : i \in 1..Len(policy_result.violations)}

\* C3: whenever evaluate_request returns, its action is block and allowed is
\* false if some returned violation has action block; otherwise its action is
\* warn and allowed is true if some returned violation has action warn;
\* otherwise its action is allow and allowed is true.
C3_BlockDominatesWarn ==
    (policy_call.made /\ ~policy_result.raised) =>
        /\ "block" \in ReturnedActions =>
               policy_result.action = "block" /\ ~policy_result.allowed
        /\ ("block" \notin ReturnedActions /\ "warn" \in ReturnedActions) =>
               policy_result.action = "warn" /\ policy_result.allowed
        /\ ("block" \notin ReturnedActions /\ "warn" \notin ReturnedActions) =>
               policy_result.action = "allow" /\ policy_result.allowed

\* an evaluation that returned a block violation together with a warn
\* violation, and decided block
C3_Witness ==
    /\ policy_call.made
    /\ ~policy_result.raised
    /\ {"block", "warn"} \subseteq ReturnedActions
    /\ policy_result.action = "block"


\* C12: evaluate_request never raises, whatever the policy list holds: it
\* returns a result for every request
C12_EvaluationNeverRaises ==
    policy_call.made => ~policy_result.raised


\* the returned budget violations that come from a policy
BudgetViolationsOf(policy_id) ==
    {i \in 1..Len(policy_result.violations) :
        /\ policy_result.violations[i].policy_id = policy_id
        /\ policy_result.violations[i].type = "budget"}

\* C18: an active budget policy yields a violation exactly when the spend
\* accumulated for the caller plus the estimated cost of the request exceeds
\* its budget limit
C18_BudgetUsesAccumulatedSpend ==
    (policy_call.made /\ ~policy_result.raised) =>
        \A i \in 1..Len(policies) :
            (policies[i].type = "budget" /\ Get(policies[i], "active", TRUE)) =>
                (BudgetViolationsOf(policies[i].id) # {}
                 <=> policy_call.accumulated_spend + policy_call.estimated_cost
                         > Get(policies[i], "budget_limit", 0))


\* the request of the last evaluation violates a policy: a budget policy
\* when the accumulated spend plus the estimated cost exceeds its limit, any
\* other policy when its check of the request finds a violation
RuleViolated(policy) ==
    IF Get(policy, "type", "None") = "budget"
    THEN policy_call.accumulated_spend + policy_call.estimated_cost
             > Get(policy, "budget_limit", 0)
    ELSE _check_policy(policy, policy_call.request_data, policy_call.user_id,
                       policy_call.team_id, policy_call.estimated_cost,
                       policy_call.clock).kind = "violation"

\* the active policies the request of the last evaluation violates, in order
ViolatedPolicies ==
    SelectSeq(policies, LAMBDA policy : Get(policy, "active", TRUE) /\ RuleViolated(policy))

\* C19: the violations evaluate_request returns are one for each active
\* policy the request violates, in the order of the policies, and none for
\* a policy that is disabled or satisfied, whatever the overall action
C19_EveryViolationReturned ==
    (policy_call.made /\ ~policy_result.raised) =>
        /\ Len(policy_result.violations) = Len(ViolatedPolicies)
        /\ \A i \in 1..Len(policy_result.violations) :
               policy_result.violations[i].policy_id = ViolatedPolicies[i].id


\* C20: every violation evaluate_request returns carries the action that is
\* configured on the policy it comes from, whatever the type of the policy
C20_ViolationCarriesConfiguredAction ==
    (policy_call.made /\ ~policy_result.raised) =>
        \A i \in 1..Len(policy_result.violations) :
            \E k \in 1..Len(policies) :
                /\ policies[k].id = policy_result.violations[i].policy_id
                /\ policies[k].type = policy_result.violations[i].type
                /\ "action" \in DOMAIN policies[k]
                /\ policies[k].action = policy_result.violations[i].action

\* the order of the actions: allow < warn < block
Severity(action) ==
    CASE action = "block" -> 2
      [] action = "warn" -> 1
      [] OTHER -> 0

\* a step that added one rule at the end of the policy list
RuleAdded ==
    /\ Len(policies') = Len(policies) + 1
    /\ SubSeq(policies', 1, Len(policies)) = policies

\* C21: whenever a rule is added to the policy set, every request that
\* evaluate_request answers before and after the addition is answered after
\* it with an action at least as severe (allow < warn < block) as before
C21_AddedRuleNeverLowersAction ==
    [][RuleAdded =>
          \A request_data \in RequestInputs, user_id \in Users, team_id \in Teams,
             estimated_cost \in Costs :
              LET before == evaluate_request(policies, request_data, user_id, team_id,
                                             estimated_cost, Calendar(now))
                  after == evaluate_request(policies', request_data, user_id, team_id,
                                            estimated_cost, Calendar(now))
              IN (~before.raised /\ ~after.raised) =>
                     Severity(after.action) >= Severity(before.action)]_vars

\* an evaluation that returned block on a policy list whose last rule was
\* added by POST /policies, where the list without that rule returns less
C21_Witness ==
    /\ policy_call.made
    /\ ~policy_result.raised
    /\ policy_result.action = "block"
    /\ Len(policies) > Len(DefaultPolicies)
    /\ policies[Len(policies)].name \in {p.name : p \in PolicyInputs}
    /\ LET without == evaluate_request(SubSeq(policies, 1, Len(policies) - 1),
                                       policy_call.request_data, policy_call.user_id,
                                       policy_call.team_id, policy_call.estimated_cost,
                                       policy_call.clock)
       IN ~without.raised /\ without.action \in {"allow", "warn"}

\* C30: after any sequence of add_policy, update_policy and delete_policy no
\* two policies of the list have the same id (so that an id names exactly
\* one policy for delete_policy and update_policy).
C30_PolicyIdsUnique ==
    \A i, j \in 1..Len(policies) : policies[i].id = policies[j].id => i = j

\* C30, the unknown id alone: delete_policy and update_policy with an id no
\* policy has leave the list as it is.
C30_UnknownIdChangesNothing ==
    \A updates \in UpdateInputs :
        /\ delete_policy(policies, <<0, 0>>) = policies
        /\ update_policy(policies, <<0, 0>>, updates, now) = policies

-----------------------------------------------------------------------------
(* Properties of the provider proxies *)

\* the positions of the steps of the last proxy_request call that ran op
StepsOf(op) == {i \in 1..Len(proxy_log.steps) : proxy_log.steps[i].op = op}

\* C1: on every provider path (the OpenAI and the Anthropic proxy) the policy
\* evaluation of a request completes before the request is posted to the
\* provider: a proxy_request call that posts has evaluated the request first.
C1_EvaluatedBeforeProviderCall ==
    proxy_log.made =>
        \A i \in StepsOf("post") : \E j \in StepsOf("evaluate_request") : j < i

\* the policy engine does not allow the request of the last proxy_request
\* call, whatever its estimated cost
Disallowed ==
    \A estimated_cost \in Costs :
        LET result == evaluate_request(policies, proxy_log.request_data,
                                       proxy_log.user_id, proxy_log.team_id,
                                       estimated_cost, proxy_log.clock)
        IN ~result.raised /\ ~result.allowed

\* C2: when the evaluation of a request does not allow it, the OpenAI
\* proxy_request posts nothing to the provider and returns a failure that is
\* marked blocked and carries the violated policies (and no cost).
C2_BlockedRequestReturnsBlocked ==
    (proxy_log.made /\ proxy_log.provider = "openai" /\ Disallowed) =>
        /\ StepsOf("post") = {}
        /\ proxy_log.outcome.kind = "return"
        /\ ~proxy_log.outcome.value.success
        /\ "blocked" \in DOMAIN proxy_log.outcome.value
        /\ proxy_log.outcome.value.blocked
        /\ proxy_log.outcome.value.policy_violations # <<>>
        /\ "cost_info" \notin DOMAIN proxy_log.outcome.value

\* the provider call of the last proxy_request ended in a transport error
\* (a timeout included), a non-2xx status or a payload that is not JSON
ProviderCallFailed ==
    /\ proxy_log.made
    /\ StepsOf("post") # {}
    /\ \/ proxy_log.response.kind = "raise"
       \/ proxy_log.response.kind = "response" /\ ~proxy_log.response.json
       \/ /\ proxy_log.response.kind = "response"
          /\ proxy_log.response.status_code \notin 200..299

\* C5: when the provider call of an attempt ends in a transport error (a
\* timeout included), a non-2xx status or a malformed payload, the attempt
\* counts as failed: its outcome is not returned to the caller as a completed
\* (successful) dispatch.
C5_FailedAttemptNotReturnedAsCompleted ==
    ProviderCallFailed =>
        ~(proxy_log.outcome.kind = "return" /\ proxy_log.outcome.value.success)


\* the policy engine allows the request of the last proxy_request call,
\* whatever its estimated cost
Allowed ==
    \A estimated_cost \in Costs :
        LET result == evaluate_request(policies, proxy_log.request_data,
                                       proxy_log.user_id, proxy_log.team_id,
                                       estimated_cost, proxy_log.clock)
        IN ~result.raised /\ result.allowed

\* C13: a request through the OpenAI proxy that the policies allow and the
\* provider answers with a 200 JSON response is returned to the caller as a
\* success carrying that response, whatever the quality analysis does
C13_AnalysisFailureKeepsResponse ==
    (/\ proxy_log.made
     /\ proxy_log.provider = "openai"
     /\ Allowed
     /\ proxy_log.response.kind = "response"
     /\ proxy_log.response.json
     /\ proxy_log.response.status_code = 200) =>
        /\ proxy_log.outcome.kind = "return"
        /\ proxy_log.outcome.value.success
        /\ proxy_log.outcome.value.data = proxy_log.response.data


\* C15: every proxy_request call, on either provider and whatever its
\* outcome, streams a live request event before it posts to the provider
\* and a live response event after its last post
C15_TelemetryAroundDispatch ==
    proxy_log.made =>
        \E i \in StepsOf("stream_request_live"), j \in StepsOf("stream_response_live") :
            \A k \in StepsOf("post") : i < k /\ k < j


\* C16: when the caller cancels a proxy_request call while its post to the
\* provider is in flight, a live response event for the abort is still
\* streamed after the post
C16_CancelledAttemptEmitsTelemetry ==
    (/\ proxy_log.made
     /\ proxy_log.response.kind = "cancel"
     /\ StepsOf("post") # {}) =>
        \E j \in StepsOf("stream_response_live") : \A k \in StepsOf("post") : k < j


\* the last proxy_request call carried a request that the policies allow,
\* for a model of the provider's price table, and the provider answers it
\* with a 200 JSON response
DispatchSucceeds ==
    /\ proxy_log.made
    /\ Allowed
    /\ proxy_log.request_data.model \in
           (IF proxy_log.provider = "openai" THEN DOMAIN OpenAIPricing
            ELSE DOMAIN AnthropicPricing)
    /\ proxy_log.response.kind = "response"
    /\ proxy_log.response.json
    /\ proxy_log.response.status_code = 200

\* cost_info is the cost of the last proxy_request call by the price table:
\* the token counts are the provider's usage when the response has one, and
\* otherwise the input tokens are a quarter of the characters of the
\* messages, one at least; the costs are tokens / 1000 x price
IsActualCost(cost_info) ==
    LET openai == proxy_log.provider = "openai"
        pricing == IF openai THEN OpenAIPricing[proxy_log.request_data.model]
                   ELSE AnthropicPricing[proxy_log.request_data.model]
        data == proxy_log.response.data
        chars == TotalChars(Get(proxy_log.request_data, "messages", <<>>))
    IN /\ "usage" \in DOMAIN data =>
              /\ cost_info.input_tokens =
                     (IF openai THEN data.usage.prompt_tokens ELSE data.usage.input_tokens)
              /\ cost_info.output_tokens =
                     (IF openai THEN data.usage.completion_tokens
                      ELSE data.usage.output_tokens)
       /\ "usage" \notin DOMAIN data =>
              cost_info.input_tokens = (IF chars \div 4 > 1 THEN chars \div 4 ELSE 1)
       /\ cost_info.total_cost =
              Round6(cost_info.input_tokens * pricing.input
                     + cost_info.output_tokens * pricing.output)

\* C24: a dispatch that succeeds is returned with the actual cost: token
\* counts from the provider's usage, or estimated from the characters of the
\* text when the response has no usage, priced by the model's price table
C24_SuccessRecordsActualCost ==
    DispatchSucceeds =>
        /\ proxy_log.outcome.kind = "return"
        /\ proxy_log.outcome.value.success
        /\ "cost_info" \in DOMAIN proxy_log.outcome.value
        /\ IsActualCost(proxy_log.outcome.value.cost_info)

\* the part of C24 that holds: what AnthropicProxy.proxy_request does
C24_AnthropicRecordsActualCost ==
    (DispatchSucceeds /\ proxy_log.provider = "anthropic") =>
        /\ proxy_log.outcome.kind = "return"
        /\ proxy_log.outcome.value.success
        /\ IsActualCost(proxy_log.outcome.value.cost_info)

-----------------------------------------------------------------------------
(* Properties of the agent router and dispatcher *)

\* the last /multi-agent/route request dispatched, and every attempt failed
DispatchExhausted ==
    /\ dispatch_log.made
    /\ dispatch_log.routed.kind = "return"
    /\ \A i \in 1..Len(dispatch_log.attempts) : dispatch_log.attempts[i].kind = "raise"

\* C6: if all N eligible options fail dispatch, the dispatch result has
\* status exhausted-fallbacks and carries the ordered list of the attempted
\* options, of length N.
C6_ExhaustedResultListsAttempts ==
    DispatchExhausted =>
        /\ "status" \in DOMAIN dispatch_log.result
        /\ dispatch_log.result.status = "exhausted-fallbacks"
        /\ "attempted" \in DOMAIN dispatch_log.result
        /\ Len(dispatch_log.result.attempted) = Len(dispatch_log.available)

\* C10: after any sequence of outcome reports (successes and failures, of
\* any non-negative duration) every agent's health score lies in [0, 1]
\* (0..1000 thousandths).
C10_HealthScoreInUnitInterval ==
    \A id \in DOMAIN agents : agents[id].health_score \in 0..1000

\* reports have been made and left an agent's health strictly inside (0, 1)
C10_Witness ==
    /\ "reported" \in DOMAIN dispatch_log
    /\ ops = MaxReports
    /\ agents[dispatch_log.reported].health_score \in 1..650


\* C11: a report of a success, whatever its duration, never leaves the
\* health score of the agent lower than it was before the report
C11_SuccessNeverLowersHealth ==
    ("reported" \in DOMAIN dispatch_log /\ dispatch_log.success) =>
        agents[dispatch_log.reported].health_score >= dispatch_log.before.health_score


AfterReports(agent, first, second) ==
    _update_agent_metrics(
        _update_agent_metrics(agent, first.duration, first.success, [success |-> first.success]),
        second.duration, second.success, [success |-> second.success])

\* x and y differ by at most tolerance
Within(x, y, tolerance) == x - y <= tolerance /\ y - x <= tolerance

\* C26: the report that was made and any other report, applied to the record
\* the agent had before, leave the same record in either order: success rate
\* and health within 0.01 (10 thousandths), mean latency within a hundredth
\* of the longer of the two durations.
C26_ReportsCommute ==
    ("reported" \in DOMAIN dispatch_log) =>
        \A duration \in {0, 1900, 60000}, success \in BOOLEAN :
            LET made == [duration |-> dispatch_log.duration, success |-> dispatch_log.success]
                other == [duration |-> duration, success |-> success]
                one == AfterReports(dispatch_log.before, made, other)
                two == AfterReports(dispatch_log.before, other, made)
                longer == IF made.duration > duration THEN made.duration ELSE duration
            IN  /\ Within(one.success_rate, two.success_rate, 10)
                /\ Within(one.avg_response_time, two.avg_response_time, longer \div 100 + 1)
                /\ Within(one.health_score, two.health_score, 10)

\* C26, without the health score: in either order the two reports leave the
\* same success rate and mean latency within those tolerances.
C26_RatesCommute ==
    ("reported" \in DOMAIN dispatch_log) =>
        \A duration \in {0, 1900, 60000}, success \in BOOLEAN :
            LET made == [duration |-> dispatch_log.duration, success |-> dispatch_log.success]
                other == [duration |-> duration, success |-> success]
                one == AfterReports(dispatch_log.before, made, other)
                two == AfterReports(dispatch_log.before, other, made)
                longer == IF made.duration > duration THEN made.duration ELSE duration
            IN  /\ Within(one.success_rate, two.success_rate, 10)
                /\ Within(one.avg_response_time, two.avg_response_time, longer \div 100 + 1)


\* a dispatch is made in this step
Dispatched == ops' = ops + 1 /\ dispatch_log'.made /\ dispatch_log'.http_status = 200

\* the step records a failure on the agent's record: its success rate and
\* health score are those _update_agent_metrics leaves for a failed outcome
FailureRecorded(agent_id) ==
    \E duration \in {0, 50} :
        LET failed == _update_agent_metrics(agents[agent_id], duration, FALSE, <<>>)
        IN  /\ agents'[agent_id].success_rate = failed.success_rate
            /\ agents'[agent_id].health_score = failed.health_score

\* C27: a dispatch records a failure on the record of every agent whose
\* attempt failed, the selected agent and the fallback agents alike.
C27_FailedAttemptsDemoted ==
    [][Dispatched =>
           \A i \in 1..Len(dispatch_log'.attempts) :
               dispatch_log'.attempts[i].kind = "raise" =>
                   FailureRecorded(dispatch_log'.attempts[i].agent_id)]_vars

\* C27, the selected agent alone: a dispatch whose first attempt failed
\* records a failure on the selected agent.
C27_SelectedDemoted ==
    [][(Dispatched /\ dispatch_log'.attempts[1].kind = "raise") =>
           FailureRecorded(dispatch_log'.attempts[1].agent_id)]_vars

-----------------------------------------------------------------------------
(* Properties of the provider intelligence *)

\* the providers that are eligible in a status table: those the table does
\* not hold as unhealthy
EligibleProviders(status) == Range(_get_healthy_providers(status, {}))

\* C4: intelligent_routing never recommends a provider that is in cooldown
\* or unhealthy: when at least one provider is eligible it returns an
\* eligible one, and when none is eligible it returns no recommendation
C4_RouteReturnsEligibleProvider ==
    (cpi_log.made /\ cpi_log.op = "intelligent_routing") =>
        IF EligibleProviders(cpi_log.status_before) = {}
        THEN cpi_log.result.kind # "return"
        ELSE /\ cpi_log.result.kind = "return"
             /\ cpi_log.result.value.provider \in EligibleProviders(cpi_log.status_before)

\* a provider is in cooldown at a time: the table holds it as unhealthy and
\* its retry_after is still ahead
InCooldown(status, provider, minutes) ==
    /\ provider \in DOMAIN status
    /\ ~status[provider].healthy
    /\ minutes < status[provider].retry_after

\* C8: a provider that is in cooldown never becomes healthy before its
\* cooldown interval has elapsed, whatever outcomes are reported for it
C8_CooldownHoldsUntilIntervalElapsed ==
    cpi_log.made =>
        \A provider \in Range(ProviderNames) :
            InCooldown(cpi_log.status_before, provider, Minutes(cpi_log.at)) =>
                ~provider_status[provider].healthy

\* C9: a provider whose cooldown interval has elapsed is eligible again
\* without any further report
C9_EligibleAgainAfterCooldown ==
    \A provider \in DOMAIN provider_status :
        (/\ ~provider_status[provider].healthy
         /\ Minutes(now) >= provider_status[provider].retry_after)
            => provider \in EligibleProviders(provider_status)


\* the options intelligent_routing chose among in the call cpi_log records:
\* those of the eligible providers that are within the budget
RoutingOptions ==
    SelectSeq(Evaluations(provider_performance,
                          _get_healthy_providers(cpi_log.status_before, {}),
                          Get(cpi_log.request_data, "model", "gpt-3.5-turbo"),
                          _assess_request_complexity(cpi_log.request_data),
                          IF "budget_limit" \in DOMAIN cpi_log.user_preferences
                          THEN IntValue(cpi_log.user_preferences.budget_limit) ELSE None,
                          cpi_log.request_data),
              LAMBDA o : o.kind = "option")

\* the place of an option in the lexicographic order by provider id, then
\* model id
LexRank(option) ==
    (IF option.provider = "anthropic" THEN 0 ELSE 10)
    + (CASE option.model = "claude-3-haiku" -> 0
         [] option.model = "claude-3-sonnet" -> 1
         [] option.model = "gpt-3.5-turbo" -> 2
         [] option.model = "gpt-4" -> 3
         [] option.model = "gpt-4-turbo" -> 4
         [] OTHER -> 5)

\* the call cpi_log records was a routing with cost as the leading priority
\* that chose among options
RoutedByCost ==
    /\ cpi_log.made
    /\ cpi_log.op = "intelligent_routing"
    /\ "priorities" \in DOMAIN cpi_log.user_preferences
    /\ cpi_log.user_preferences.priorities[1] = "cost"
    /\ cpi_log.result.kind = "return"
    /\ RoutingOptions # <<>>

\* C22: a routing by cost returns an option whose predicted cost is the
\* least among the eligible options, and among the options of that cost the
\* one that comes first by provider id, then model id
C22_CostStrategySelectsCheapest ==
    RoutedByCost =>
        \A i \in 1..Len(RoutingOptions) :
            \/ cpi_log.result.value.estimated_cost < RoutingOptions[i].estimated_cost
            \/ /\ cpi_log.result.value.estimated_cost = RoutingOptions[i].estimated_cost
               /\ LexRank(cpi_log.result.value) <= LexRank(RoutingOptions[i])

\* the part of C22 that intelligent_routing keeps: the option returned has
\* the least predicted cost
C22_CheapestOnly ==
    RoutedByCost =>
        \A i \in 1..Len(RoutingOptions) :
            cpi_log.result.value.estimated_cost <= RoutingOptions[i].estimated_cost

\* the success rate of an option over its last 10 samples, in thousandths
RollingSuccessRate(metrics) ==
    (1000 * Sum(LastN(metrics.success_rate, 10))) \div Len(LastN(metrics.success_rate, 10))

\* the options that have been reported: (provider, model) pairs
ReportedOptions ==
    {option \in Range(ProviderNames) \X {"gpt-4", "gpt-3.5-turbo", "claude-3-sonnet"} :
        /\ option[1] \in DOMAIN provider_performance
        /\ option[2] \in DOMAIN provider_performance[option[1]]}

\* C28: after an outcome report, every option whose success rate over its
\* last 10 samples is below the threshold is in cooldown, and the report does
\* not put the reported option in cooldown when its rate is at or above the
\* threshold.
C28_LowRateOptionInCooldown ==
    (cpi_log.made /\ cpi_log.op = "track_provider_performance") =>
        /\ \A option \in ReportedOptions :
               RollingSuccessRate(provider_performance[option[1]][option[2]])
                       < error_rate_threshold
                   => InCooldown(provider_status, option[1], Minutes(cpi_log.at))
        /\ RollingSuccessRate(provider_performance[cpi_log.provider][cpi_log.model])
                   >= error_rate_threshold
               => ~InCooldown(provider_status, cpi_log.provider, Minutes(cpi_log.at))

\* C28, the reported option alone: after an outcome report its provider is in
\* cooldown exactly when the option's rolling success rate is below the
\* threshold.
C28_ReportedOptionCooldown ==
    (cpi_log.made /\ cpi_log.op = "track_provider_performance") =>
        (InCooldown(provider_status, cpi_log.provider, Minutes(cpi_log.at))
             <=> RollingSuccessRate(provider_performance[cpi_log.provider][cpi_log.model])
                     < error_rate_threshold)

-----------------------------------------------------------------------------
(* Properties of the live monitoring service *)

\* the events a socket was sent that carry the id of a team
TeamEvents(websocket) ==
    {i \in 1..Len(sockets[websocket].received) :
        /\ "team_id" \in DOMAIN sockets[websocket].received[i]
        /\ sockets[websocket].received[i].team_id.kind = "str"}

\* C7: a connection registered with a team id receives no event that is
\* tagged with the id of another team
C7_TeamFilterHoldsOnDelivery ==
    \A c \in DOMAIN connections :
        connection_metadata[c].team_id.kind = "str" =>
            \A i \in TeamEvents(connections[c]) :
                sockets[connections[c]].received[i].team_id = connection_metadata[c].team_id

\* the connections whose socket was closed when the last operation began:
\* a send to them raises
FailedDeliveries ==
    {c \in DOMAIN ws_log.before.connections :
        ~ws_log.before.sockets[ws_log.before.connections[c]].open}

C17_HeartbeatEveryInterval ==
    \A c \in DOMAIN connections :
        (connection_metadata[c].connected_at < now /\ sockets[connections[c]].open) =>
            \E i \in 1..Len(sockets[connections[c]].received) :
                sockets[connections[c]].received[i].type = "heartbeat"

\* C29: a broadcast that runs while connections are made and removed ends
\* by returning, never by raising, and in every state the registry and the
\* metadata map hold the same connection ids.
C29_BroadcastCompletesAmongTasks ==
    /\ ("outcome" \in DOMAIN publishing) => publishing.outcome = "returned"
    /\ DOMAIN connections = DOMAIN connection_metadata

\* C29, the two maps alone: in every state the registry and the metadata map
\* hold the same connection ids.
C29_RegistryKeysMatch == DOMAIN connections = DOMAIN connection_metadata

-----------------------------------------------------------------------------
(* Properties of the security scan *)

\* the threats of a list that have the given severity
ThreatsOfSeverity(threats, severity) == {i \in 1..Len(threats) : threats[i].severity = severity}

\* the recommendation the rule asks for: block exactly when a critical or high
\* threat fired, or at least two medium threats did
BlockAsked(threats) ==
    \/ ThreatsOfSeverity(threats, "critical") # {}
    \/ ThreatsOfSeverity(threats, "high") # {}
    \/ Cardinality(ThreatsOfSeverity(threats, "medium")) >= 2

\* C25: for every list of detected threats, the answer of the scan carries a
\* verdict, and the verdict recommends block exactly when the list holds a
\* critical or high threat or at least two medium threats (a single medium
\* threat, or low threats only, do not recommend block).
C25_BlockOnHighOrTwoMedium ==
    (cpi_log.made /\ cpi_log.op = "scan_content") =>
        /\ cpi_log.returned.status_code = 200
        /\ cpi_log.returned.scan_result.blocked = BlockAsked(cpi_log.threats)

\* C25, the rule alone: the verdict scan_request computes over the threats of
\* a scan is the one asked for, with the highest severity present.
C25_RuleAsWritten ==
    (cpi_log.made /\ cpi_log.op = "scan_content") =>
        /\ scan_request(cpi_log.threats).blocked = BlockAsked(cpi_log.threats)
        /\ ThreatsOfSeverity(cpi_log.threats, scan_request(cpi_log.threats).severity) # {}
               \/ cpi_log.threats = <<>>
=============================================================================
